---- MODULE Spec2Model ----
(***************************************************************************)
(* A model of backdrop's read core: the calendar periods                   *)
(* (backdrop/core/timeseries.py), the gap-filling functions timeseries and *)
(* fill_group_by_permutations, and the construction of a Query             *)
(* (backdrop/read/query.py).                                               *)
(*                                                                         *)
(* A datetime is a record of its calendar fields.  Every instant is in     *)
(* UTC: the callers normalise to UTC (parse_time_as_utc) and               *)
(* Period.range stamps tzinfo=UTC on what it yields.                       *)
(***************************************************************************)
EXTENDS Integers, Sequences, FiniteSets, TLC

VARIABLES
    pc,           \* which operation of the family under study has run
    period,       \* the Period singleton the call is made on (its name)
    timestamp,    \* Period.start / Period.end / Period.range: the instant given
    endstamp,     \* Period.range: the end instant given
    started,      \* the value Period.start returned
    restarted,    \* the value Period.start returned when given `started`
    ended,        \* the value Period.end returned
    ranged,       \* the list Period.range yielded
    valid,        \* the value Period.valid_start_at returned
    fill_start,   \* timeseries / fill_group_by_permutations: start
    fill_end,     \* timeseries / fill_group_by_permutations: end
    data,         \* the raw rows given to the fill
    default,      \* the default mapping given to the fill
    default_after, \* the default mapping as the fill left it
    group_by,     \* fill_group_by_permutations: the list of group-by keys
    permutations, \* fill_group_by_permutations: its local list of permutations
    results,      \* the list the fill returned
    permutations_again, \* the permutations of the fill run on `results`
    results_again, \* the list the fill returned when given `results` as data
    now,          \* timeutils.now() at the time a Query is built
    args,         \* the keyword arguments given to Query.create, or the mapping
                  \* parse_request_args returned
    request,      \* the request arguments given to Query.parse / parse_request_args
    query,        \* the Query that Query.create or Query.parse returned
    error,        \* the exception raised instead
    calls,        \* Query.execute: the calls made on the repository, in order
    raised,       \* Query.execute: the exception the repository call raised
    result,       \* Query.execute: the result set returned and the fill invoked on it
    mongo_query,  \* the dict Query.to_mongo_query returned
    mongo_spec,   \* the dict get_mongo_spec returned
    mongo_sort,   \* the value get_mongo_sort returned
    session,      \* the sign-on session of the browser: the mapping flask keeps
    signon_request, \* the last sign-on request, with what the sign-on service answers
    response,     \* the answer to the last sign-on request
    transform,    \* get_query_parameters: the transform mapping the caller holds
    transform_given, \* the transform mapping as the caller first had it
    span,         \* get_query_parameters: the (earliest, latest) of the last call
    query_parameters, \* the mapping the last call of get_query_parameters returned
    tries,        \* reconnecting_save: the tries the caller gave
    tries_left,   \* reconnecting_save: the tries of the invocation now running
    record,       \* reconnecting_save: the record to save
    collection,   \* the records the collection holds
    saves,        \* the outcomes of the calls of collection.save, in order
    save_raised,  \* the exception that left reconnecting_save
    scanned_file, \* the ScannedFile: its file object, _file_path and _virus_signature
    tmp_files,    \* the paths that exist under /tmp
    retcodes,     \* the return codes clamdscan gave, in order
    returned,     \* the value the last has_virus_signature gave
    scan_raised,  \* the exception that left the last has_virus_signature
    threads,      \* the callers running concurrently: each one's call and locals
    shared        \* what the callers share: Period singletons, raw rows, default

periodVars == <<timestamp, endstamp, started, restarted, ended, ranged, valid>>
fillVars == <<fill_start, fill_end, data, default, default_after, group_by, permutations, results,
              permutations_again, results_again>>
queryVars == <<now, args, request, query, error, calls, raised, result, mongo_query, mongo_spec,
               mongo_sort>>
signonVars == <<session, signon_request, response>>
transformVars == <<transform, transform_given, span, query_parameters>>
saveVars == <<tries, tries_left, record, collection, saves, save_raised>>
scanVars == <<scanned_file, tmp_files, retcodes, returned, scan_raised>>
threadVars == <<threads, shared>>
restVars == <<signonVars, transformVars, saveVars, scanVars, threadVars>>
coreVars == <<period, periodVars, fillVars, queryVars>>
vars == <<pc, period, periodVars, fillVars, queryVars, restVars>>

(***************************************************************************)
(* Python's None and a present value.                                      *)
(***************************************************************************)
None == <<>>
Some(x) == <<x>>
Val(o) == o[1]

\* the variables of the other operations, when none of them has run
SignonIdle == session = None /\ signon_request = None /\ response = None
TransformIdle ==
    transform = None /\ transform_given = None /\ span = None /\ query_parameters = None
SaveIdle ==
    /\ tries = None /\ tries_left = None /\ record = None /\ collection = None
    /\ saves = None
    /\ save_raised = None
ScanIdle ==
    /\ scanned_file = None /\ tmp_files = None /\ retcodes = None /\ returned = None
    /\ scan_raised = None
ThreadIdle == threads = None /\ shared = None
RestIdle == SignonIdle /\ TransformIdle /\ SaveIdle /\ ScanIdle /\ ThreadIdle

(***************************************************************************)
(* datetime: the proleptic Gregorian calendar of the standard library.     *)
(***************************************************************************)
IsLeap(y) == (y % 4 = 0) /\ ((y % 100 # 0) \/ (y % 400 = 0))

DaysInMonth(y, m) ==
    IF m = 2 THEN (IF IsLeap(y) THEN 29 ELSE 28)
    ELSE IF m \in {4, 6, 9, 11} THEN 30 ELSE 31

DaysBeforeYear(y) ==
    LET p == y - 1 IN p * 365 + (p \div 4) - (p \div 100) + (p \div 400)

DaysBeforeMonth(y, m) ==
    <<0, 31, 59, 90, 120, 151, 181, 212, 243, 273, 304, 334>>[m]
        + (IF m > 2 /\ IsLeap(y) THEN 1 ELSE 0)

toordinal(dt) == DaysBeforeYear(dt.year) + DaysBeforeMonth(dt.year, dt.month) + dt.day

\* datetime.weekday(): Monday is 0
weekday(dt) == (toordinal(dt) + 6) % 7

\* the date fields of the day with proleptic ordinal n
fromordinal(n) ==
    LET y == CHOOSE c \in (n \div 366)..((n \div 365) + 1) :
                 DaysBeforeYear(c) < n /\ n <= DaysBeforeYear(c + 1)
        r == n - DaysBeforeYear(y)
        m == CHOOSE c \in 1..12 :
                 DaysBeforeMonth(y, c) < r /\ r <= DaysBeforeMonth(y, c) + DaysInMonth(y, c)
    IN  [year |-> y, month |-> m, day |-> r - DaysBeforeMonth(y, m)]

datetime(y, mo, d, h, mi, s, us) ==
    [year |-> y, month |-> mo, day |-> d, hour |-> h, minute |-> mi,
     second |-> s, microsecond |-> us]

dt_key(dt) == <<dt.year, dt.month, dt.day, dt.hour, dt.minute, dt.second, dt.microsecond>>

\* datetime.__lt__ and __le__ of two UTC datetimes
dt_lt(a, b) ==
    \E i \in 1..7 : /\ dt_key(a)[i] < dt_key(b)[i]
                    /\ \A j \in 1..(i - 1) : dt_key(a)[j] = dt_key(b)[j]

dt_le(a, b) == a = b \/ dt_lt(a, b)

\* datetime + timedelta(days=days, hours=hours)
add_timedelta(dt, days, hours) ==
    LET h == dt.hour + hours
        o == fromordinal(toordinal(dt) + days + (h \div 24))
    IN  [dt EXCEPT !.year = o.year, !.month = o.month, !.day = o.day, !.hour = h % 24]

\* datetime + relativedelta(months=months): the day is clamped to the month's length
add_months(dt, months) ==
    LET t == dt.year * 12 + (dt.month - 1) + months
        y == t \div 12
        m == (t % 12) + 1
        d == IF dt.day < DaysInMonth(y, m) THEN dt.day ELSE DaysInMonth(y, m)
    IN  [dt EXCEPT !.year = y, !.month = m, !.day = d]

\* datetime + relativedelta(weekday=MO(-1)): back to the last Monday, today included
last_monday(dt) == add_timedelta(dt, 0 - (weekday(dt) % 7), 0)

\* datetime + a Period's _delta (a timedelta, or a relativedelta of months/years)
add_delta(dt, d) == add_timedelta(add_months(dt, d.months), d.days, d.hours)

\* _delta * n
mul_delta(d, n) == [months |-> d.months * n, days |-> d.days * n, hours |-> d.hours * n]

(***************************************************************************)
(* The periods.                                                            *)
(***************************************************************************)
PERIODS == <<"hour", "day", "week", "month", "quarter", "year">>

PeriodNames == {PERIODS[i] : i \in 1..Len(PERIODS)}

delta(P) ==
    CASE P = "hour"    -> [months |-> 0,  days |-> 0, hours |-> 1]
      [] P = "day"     -> [months |-> 0,  days |-> 1, hours |-> 0]
      [] P = "week"    -> [months |-> 0,  days |-> 7, hours |-> 0]
      [] P = "month"   -> [months |-> 1,  days |-> 0, hours |-> 0]
      [] P = "quarter" -> [months |-> 3,  days |-> 0, hours |-> 0]
      [] P = "year"    -> [months |-> 12, days |-> 0, hours |-> 0]

start_at_key(P) == <<"_", P, "_start_at">>

truncate_time(dt) == [dt EXCEPT !.hour = 0, !.minute = 0, !.second = 0, !.microsecond = 0]

is_start_of_day(ts) ==
    ts.hour = 0 /\ ts.minute = 0 /\ ts.second = 0 /\ ts.microsecond = 0

Hour_start(ts) == [ts EXCEPT !.minute = 0, !.second = 0, !.microsecond = 0]

\* a slip: the microsecond is not looked at
Hour_valid_start_at_to_the_second(ts) == ts.minute = 0 /\ ts.second = 0

Hour_valid_start_at(ts) == ts.minute = 0 /\ ts.second = 0 /\ ts.microsecond = 0

Day_start(ts) == truncate_time(ts)

Day_valid_start_at(ts) == is_start_of_day(ts)

\* a slip: MO(-1) taken as the Monday strictly before the day
Week_start_strictly_before(ts) ==
    add_timedelta(truncate_time(ts), 0 - ((weekday(ts) + 6) % 7) - 1, 0)

Week_start(ts) == last_monday(truncate_time(ts))

Week_valid_start_at(ts) == weekday(ts) = 0 /\ is_start_of_day(ts)

Month_start(ts) ==
    [ts EXCEPT !.day = 1, !.hour = 0, !.minute = 0, !.second = 0, !.microsecond = 0]

Month_valid_start_at(ts) == ts.day = 1 /\ is_start_of_day(ts)

quarter_starts == <<10, 7, 4, 1>>

Quarter_start(ts) ==
    LET first == CHOOSE i \in 1..Len(quarter_starts) :
                     /\ ts.month >= quarter_starts[i]
                     /\ \A j \in 1..(i - 1) : ts.month < quarter_starts[j]
    IN  [ts EXCEPT !.month = quarter_starts[first], !.day = 1, !.hour = 0,
                   !.minute = 0, !.second = 0, !.microsecond = 0]

Quarter_valid_start_at(ts) ==
    /\ ts.day = 1
    /\ \E i \in 1..Len(quarter_starts) : ts.month = quarter_starts[i]
    /\ is_start_of_day(ts)

Year_start(ts) ==
    [ts EXCEPT !.month = 1, !.day = 1, !.hour = 0, !.minute = 0, !.second = 0,
               !.microsecond = 0]

Year_valid_start_at(ts) == ts.month = 1 /\ ts.day = 1 /\ is_start_of_day(ts)

start(P, ts) ==
    CASE P = "hour"    -> Hour_start(ts)
      [] P = "day"     -> Day_start(ts)
      [] P = "week"    -> Week_start(ts)
      [] P = "month"   -> Month_start(ts)
      [] P = "quarter" -> Quarter_start(ts)
      [] P = "year"    -> Year_start(ts)

valid_start_at(P, ts) ==
    CASE P = "hour"    -> Hour_valid_start_at(ts)
      [] P = "day"     -> Day_valid_start_at(ts)
      [] P = "week"    -> Week_valid_start_at(ts)
      [] P = "month"   -> Month_valid_start_at(ts)
      [] P = "quarter" -> Quarter_valid_start_at(ts)
      [] P = "year"    -> Year_valid_start_at(ts)

is_boundary(P, ts) ==
    IF P = "hour" THEN valid_start_at(P, ts)
    ELSE valid_start_at(P, ts) /\ is_start_of_day(ts)

\* a slip: the boundary test dropped, every instant rounded to the next period
end_always_next(P, ts) == start(P, add_delta(ts, delta(P)))

end(P, ts) ==
    IF is_boundary(P, ts) THEN ts ELSE start(P, add_delta(ts, delta(P)))

\* the buckets the generator yields while _start < _end
RECURSIVE range_from(_, _, _)
range_from(P, cur, stop) ==
    IF dt_lt(cur, stop)
    THEN <<<<cur, add_delta(cur, delta(P))>>>> \o range_from(P, add_delta(cur, delta(P)), stop)
    ELSE <<>>

\* a slip: the end of the window floored like its start
range_to_start_of_end(P, s, e) == range_from(P, start(P, s), start(P, e))

range(P, s, e) == range_from(P, start(P, s), end(P, e))

(***************************************************************************)
(* The instants the calls are given.                                       *)
(***************************************************************************)
MaxSteps == 2

Years == {2015, 2016}
Days == {1, 16, 29, 30, 31}
Dates == {d \in [year : Years, month : 1..12, day : Days] : d.day <= DaysInMonth(d.year, d.month)}
Times == {<<0, 0, 0, 0>>, <<0, 0, 0, 1>>, <<0, 30, 0, 0>>, <<1, 0, 0, 0>>,
          <<23, 59, 59, 999999>>}

at(d, t) == datetime(d.year, d.month, d.day, t[1], t[2], t[3], t[4])

Instants == {at(d, t) : d \in Dates, t \in Times}

\* the instants at or after s, up to MaxSteps periods later
EndStamps(P, s) ==
    {e \in {at(add_delta(s, mul_delta(delta(P), k)), t) : k \in 0..MaxSteps, t \in Times} :
        dt_le(s, e)}

(***************************************************************************)
(* Calls on a Period singleton.                                            *)
(***************************************************************************)
PeriodInit ==
    /\ pc = "init"
    /\ period \in PeriodNames
    /\ timestamp \in Instants
    /\ endstamp = None
    /\ started = None
    /\ restarted = None
    /\ ended = None
    /\ ranged = None
    /\ valid = None
    /\ fill_start = None /\ fill_end = None /\ data = None /\ default = None
    /\ default_after = None
    /\ group_by = None /\ permutations = None /\ results = None
    /\ permutations_again = None /\ results_again = None
    /\ now = None /\ args = None /\ request = None /\ query = None /\ error = None
    /\ calls = None /\ raised = None /\ result = None
    /\ RestIdle
    /\ mongo_query = None /\ mongo_spec = None /\ mongo_sort = None

CallStart ==
    /\ pc = "init"
    /\ started' = Some(start(period, timestamp))
    /\ pc' = "start"
    /\ UNCHANGED <<restVars, period, timestamp, endstamp, restarted, ended, ranged, valid, fillVars, queryVars>>

CallStartAgain ==
    /\ pc = "start"
    /\ restarted' = Some(start(period, Val(started)))
    /\ pc' = "restart"
    /\ UNCHANGED <<restVars, period, timestamp, endstamp, started, ended, ranged, valid, fillVars, queryVars>>

CallEnd ==
    /\ pc = "start"
    /\ ended' = Some(end(period, timestamp))
    /\ pc' = "end"
    /\ UNCHANGED <<restVars, period, timestamp, endstamp, started, restarted, ranged, valid, fillVars, queryVars>>

CallRange ==
    /\ pc = "init"
    /\ \E e \in EndStamps(period, timestamp) :
          /\ endstamp' = Some(e)
          /\ ranged' = Some(range(period, timestamp, e))
    /\ pc' = "range"
    /\ UNCHANGED <<restVars, period, timestamp, started, restarted, ended, valid, fillVars, queryVars>>

CallValidStartAt ==
    /\ pc = "start"
    /\ valid' = Some(valid_start_at(period, timestamp))
    /\ pc' = "valid"
    /\ UNCHANGED <<restVars, period, timestamp, endstamp, started, restarted, ended, ranged, fillVars, queryVars>>

PeriodNext == CallStart \/ CallStartAgain \/ CallEnd \/ CallRange \/ CallValidStartAt

SpecPeriod == PeriodInit /\ [][PeriodNext]_vars

(***************************************************************************)
(* Gap filling.  A row is a mapping from keys to values.                   *)
(***************************************************************************)
\* _time.mktime(dt.replace(tzinfo=pytz.utc).timetuple()): the timetuple holds no
\* microsecond, and mktime (process timezone UTC) gives its seconds since 1970-01-01
time_to_index(dt) ==
    (toordinal(dt) - toordinal(datetime(1970, 1, 1, 0, 0, 0, 0))) * 86400
        + dt.hour * 3600 + dt.minute * 60 + dt.second

\* a slip: the item of the first mapping kept for a key of both
merge_first_wins(first, second) == first @@ second

\* dict(first.items() + second.items()): the later item of a key wins
merge(first, second) == second @@ first

\* a slip: the limits of the bucket exchanged
period_limits_swapped(s, e) == ("_start_at" :> e) @@ ("_end_at" :> s)

period_limits(s, e) == ("_start_at" :> s) @@ ("_end_at" :> e)

\* sorted(data, key=lambda d: d['_start_at']): stable
RECURSIVE sorted_by_start_at(_)
sorted_by_start_at(rows) ==
    IF rows = <<>> THEN <<>>
    ELSE LET n == Len(rows)
             x == rows[n]
             done == sorted_by_start_at(SubSeq(rows, 1, n - 1))
             keep == Cardinality({i \in 1..(n - 1) : dt_le(done[i]["_start_at"], x["_start_at"])})
         IN  SubSeq(done, 1, keep) \o <<x>> \o SubSeq(done, keep + 1, n - 1)

\* itertools.groupby: the runs of consecutive rows of one key, as (key, run)
RECURSIVE groupby(_)
groupby(rows) ==
    IF rows = <<>> THEN <<>>
    ELSE LET k == time_to_index(rows[1]["_start_at"])
             n == CHOOSE j \in 1..Len(rows) :
                      /\ \A i \in 1..j : time_to_index(rows[i]["_start_at"]) = k
                      /\ j < Len(rows) => time_to_index(rows[j + 1]["_start_at"]) # k
         IN  <<<<k, SubSeq(rows, 1, n)>>>> \o groupby(SubSeq(rows, n + 1, Len(rows)))

\* {k: list(g) for k, g in grouped}: the last run of a key stays
group_by_start_at(rows) ==
    LET runs == groupby(sorted_by_start_at(rows))
        last(k) == CHOOSE i \in 1..Len(runs) :
                       runs[i][1] = k /\ \A j \in (i + 1)..Len(runs) : runs[j][1] # k
    IN  [k \in {runs[i][1] : i \in 1..Len(runs)} |-> runs[last(k)][2]]

RECURSIVE timeseries_over(_, _, _)
timeseries_over(buckets, data_by_start_at, dflt) ==
    IF buckets = <<>> THEN <<>>
    ELSE LET period_start == buckets[1][1]
             period_end == buckets[1][2]
             time_index == time_to_index(period_start)
         IN  (IF time_index \in DOMAIN data_by_start_at
              THEN data_by_start_at[time_index]
              ELSE <<merge(dflt, period_limits(period_start, period_end))>>)
             \o timeseries_over(Tail(buckets), data_by_start_at, dflt)

\* a slip: the buckets taken from the start given, not floored to its period
timeseries_unfloored(s, e, P, rows, dflt) ==
    timeseries_over(range_from(P, s, end(P, e)), group_by_start_at(rows), dflt)

timeseries(s, e, P, rows, dflt) ==
    timeseries_over(range(P, s, e), group_by_start_at(rows), dflt)

\* a slip: a value no row holds counted among the values of every key
unique_values_and_blank(rows, key) == {rows[i][key] : i \in 1..Len(rows)} \cup {"-"}

\* set([d[key] for d in data])
unique_values(rows, key) == {rows[i][key] : i \in 1..Len(rows)}

\* the orders a set of values can be iterated in
Orderings(S) ==
    {o \in [1..Cardinality(S) -> S] : \A i, j \in 1..Cardinality(S) : o[i] = o[j] => i = j}

\* for each group-by key, an order in which set iteration gives its unique values
SetOrders(rows, keys) ==
    LET K == {keys[i] : i \in 1..Len(keys)}
    IN  {f \in [K -> UNION {Orderings(unique_values(rows, k)) : k \in K}] :
            \A k \in K : f[k] \in Orderings(unique_values(rows, k))}

\* a slip: the (key, value) lists zipped, not multiplied
all_group_by_permutations_zipped(keys, iter) ==
    LET lens == {Len(iter[keys[i]]) : i \in 1..Len(keys)}
        shortest == IF lens = {} THEN 0 ELSE CHOOSE n \in lens : \A m \in lens : n <= m
    IN  [n \in 1..shortest |->
            [k \in {keys[i] : i \in 1..Len(keys)} |-> iter[k][n]]]

\* itertools.product of the (key, value) lists, each tuple made a dict; the keys
\* are taken in the order of group_by
RECURSIVE all_group_by_permutations(_, _)
all_group_by_permutations(keys, iter) ==
    IF keys = <<>> THEN << <<>> >>
    ELSE LET rest == all_group_by_permutations(Tail(keys), iter)
             vals == iter[Head(keys)]
         IN  [n \in 1..(Len(vals) * Len(rest)) |->
                 (Head(keys) :> vals[((n - 1) \div Len(rest)) + 1])
                     @@ rest[((n - 1) % Len(rest)) + 1]]

\* str(datetime): every field of the instant
str_datetime(dt) == dt_key(dt)

\* a slip: the identity key without the end of the bucket
hash_datum_without_end(datum, keys) ==
    str_datetime(datum["_start_at"]) \o [i \in 1..Len(keys) |-> datum[keys[i]]]

\* '{0}{1}{2}'.format(datum['_start_at'], datum['_end_at'], str([datum[key] ...]))
hash_datum(datum, keys) ==
    str_datetime(datum["_start_at"]) \o str_datetime(datum["_end_at"])
        \o [i \in 1..Len(keys) |-> datum[keys[i]]]

hash_permutation(perm, s, e, keys) ==
    str_datetime(s) \o str_datetime(e) \o [i \in 1..Len(keys) |-> perm[keys[i]]]

\* hashed_data.get(h, None) of {hash_datum(datum): datum for datum in data}
hashed_data_get(rows, keys, h) ==
    LET hits == {i \in 1..Len(rows) : hash_datum(rows[i], keys) = h}
    IN  IF hits = {} THEN None
        ELSE Some(rows[CHOOSE i \in hits : \A j \in hits : j <= i])

\* the inner loop: one bucket, every permutation
fill_bucket(bucket, perms, rows, dflt, keys) ==
    [n \in 1..Len(perms) |->
        LET group == period_limits(bucket[1], bucket[2]) @@ perms[n]
            datum == hashed_data_get(rows, keys, hash_permutation(group, bucket[1], bucket[2], keys))
        IN  IF datum # None THEN Val(datum) ELSE merge(dflt, group)]

RECURSIVE fill_buckets(_, _, _, _, _)
fill_buckets(buckets, perms, rows, dflt, keys) ==
    IF buckets = <<>> THEN <<>>
    ELSE fill_bucket(buckets[1], perms, rows, dflt, keys)
             \o fill_buckets(Tail(buckets), perms, rows, dflt, keys)

\* a slip: with no value seen, one group of blank values filled in every bucket
fill_group_by_permutations_blank_group(s, e, P, rows, dflt, keys, perms) ==
    fill_buckets(range(P, s, e),
                 IF perms = <<>>
                 THEN <<[k \in {keys[i] : i \in 1..Len(keys)} |-> "-"]>>
                 ELSE perms,
                 rows, dflt, keys)

\* perms is all_group_by_permutations() under the set iteration order of the run
fill_group_by_permutations(s, e, P, rows, dflt, keys, perms) ==
    fill_buckets(range(P, s, e), perms, rows, dflt, keys)

(***************************************************************************)
(* The inputs of the fills.                                                *)
(***************************************************************************)
MaxBuckets == 2
MaxRows == 2

\* one period of a fixed length and one of a calendar length
FillPeriods == {"week", "month"}

\* a Monday that starts a month, and a leap day off every boundary
FillStarts == {datetime(2016, 2, 1, 0, 0, 0, 0), datetime(2016, 2, 29, 0, 30, 0, 0)}

FillEnds(P, s) == {add_delta(s, mul_delta(delta(P), k)) : k \in 0..MaxBuckets}

GroupKeys == <<"k1", "k2">>
GroupValues == {<<"a", "x">>, <<"b", "y">>}

row(s, e, g) ==
    ("_start_at" :> s) @@ ("_end_at" :> e) @@ ("k1" :> g[1]) @@ ("k2" :> g[2])
        @@ ("_count" :> 1)

\* the rows storage can return for the window: on each boundary from the first
\* bucket on, one a microsecond after the first boundary, and one whose _end_at
\* is not the end of its bucket
Rows(P, s) ==
    LET first == start(P, s)
        on == {add_delta(first, mul_delta(delta(P), k)) : k \in 0..MaxBuckets}
    IN  {row(b, add_delta(b, delta(P)), g) : b \in on, g \in GroupValues}
        \cup {row([first EXCEPT !.microsecond = 1], add_delta(first, delta(P)), g) :
                 g \in {<<"a", "x">>}}
        \cup {row(first, first, g) : g \in {<<"a", "x">>}}

\* the default mappings a caller gives: the count alone, and one that also
\* holds the keys the fill stamps (_start_at, _end_at, a group-by key)
Defaults ==
    { ("_count" :> 0),
      ("_count" :> 0) @@ ("_start_at" :> datetime(2000, 1, 1, 0, 0, 0, 0))
          @@ ("_end_at" :> datetime(2000, 1, 2, 0, 0, 0, 0)) @@ ("k1" :> "z") }

\* how many raw rows come with a default mapping: one fewer with the mapping
\* that holds the stamped keys
RowsWith(dflt) == IF "_start_at" \in DOMAIN dflt THEN MaxRows - 1 ELSE MaxRows

SeqsUpTo(S, n) == UNION {[1..k -> S] : k \in 0..n}

FillInit ==
    /\ pc = "fill"
    /\ period \in FillPeriods
    /\ fill_start \in FillStarts
    /\ fill_end \in FillEnds(period, fill_start)
    /\ default \in Defaults
    /\ data \in SeqsUpTo(Rows(period, fill_start), RowsWith(default))
    /\ default_after = None
    /\ group_by = None
    /\ permutations = None
    /\ results = None
    /\ permutations_again = None
    /\ results_again = None
    /\ timestamp = None /\ endstamp = None /\ started = None /\ restarted = None
    /\ ended = None /\ ranged = None /\ valid = None
    /\ now = None /\ args = None /\ request = None /\ query = None /\ error = None
    /\ calls = None /\ raised = None /\ result = None
    /\ RestIdle
    /\ mongo_query = None /\ mongo_spec = None /\ mongo_sort = None

Timeseries ==
    /\ pc = "fill"
    /\ results' = timeseries(fill_start, fill_end, period, data, default)
    /\ default_after' = Some(default)
    /\ pc' = "timeseries"
    /\ UNCHANGED <<restVars, period, periodVars, queryVars, fill_start, fill_end, data, default, group_by,
                   permutations, permutations_again, results_again>>

TimeseriesAgain ==
    /\ pc = "timeseries"
    /\ results_again' = timeseries(fill_start, fill_end, period, results, default)
    /\ pc' = "timeseries_again"
    /\ UNCHANGED <<restVars, period, periodVars, queryVars, fill_start, fill_end, data, default,
                   default_after, group_by,
                   permutations, results, permutations_again>>

FillGroupByPermutations ==
    /\ pc = "fill"
    /\ \E keys \in {SubSeq(GroupKeys, 1, n) : n \in 1..Len(GroupKeys)} :
       \E iter \in SetOrders(data, keys) :
          /\ group_by' = keys
          /\ permutations' = all_group_by_permutations(keys, iter)
          /\ results' = fill_group_by_permutations(fill_start, fill_end, period, data,
                            default, keys, all_group_by_permutations(keys, iter))
    /\ default_after' = Some(default)
    /\ pc' = "grouped"
    /\ UNCHANGED <<restVars, period, periodVars, queryVars, fill_start, fill_end, data, default,
                   permutations_again, results_again>>

FillGroupByPermutationsAgain ==
    /\ pc = "grouped"
    /\ \E iter \in SetOrders(results, group_by) :
          /\ permutations_again' = all_group_by_permutations(group_by, iter)
          /\ results_again' = fill_group_by_permutations(fill_start, fill_end, period,
                            results, default, group_by,
                            all_group_by_permutations(group_by, iter))
    /\ pc' = "grouped_again"
    /\ UNCHANGED <<restVars, period, periodVars, queryVars, fill_start, fill_end, data, default,
                   default_after, group_by,
                   permutations, results>>

FillNext ==
    Timeseries \/ TimeseriesAgain \/ FillGroupByPermutations \/ FillGroupByPermutationsAgain

SpecFill == FillInit /\ [][FillNext]_vars

(***************************************************************************)
(* Query construction.                                                     *)
(***************************************************************************)
\* x or y, for an x that is None or a datetime
or_else(x, y) == IF x # None THEN Val(x) ELSE y

\* x or [], for an x that is None or a list
or_list(x) == IF x # None THEN Val(x) ELSE <<>>

\* a slip: forward windows anchored on the start of the period of the date
calculate_start_and_end_floored(P, date, d, t) ==
    LET anchor == start(P, or_else(date, t))
        duration == mul_delta(delta(P), d)
    IN  IF d > 0
        THEN <<anchor, add_delta(anchor, duration)>>
        ELSE <<add_delta(anchor, duration), anchor>>

\* a slip: backward windows anchored on the end of the period of the date
calculate_start_and_end_ceiled(P, date, d, t) ==
    LET anchor == end(P, or_else(date, t))
        duration == mul_delta(delta(P), d)
    IN  IF d > 0
        THEN <<anchor, add_delta(anchor, duration)>>
        ELSE <<add_delta(anchor, duration), anchor>>

\* a slip: the window laid from the date as given, not from a boundary
calculate_start_and_end_unanchored(P, date, d, t) ==
    LET anchor == or_else(date, t)
        duration == mul_delta(delta(P), d)
    IN  IF d > 0
        THEN <<anchor, add_delta(anchor, duration)>>
        ELSE <<add_delta(anchor, duration), anchor>>

\* Query.__calculate_start_and_end(period, date, delta), with now() = t
calculate_start_and_end(P, date, d, t) ==
    LET duration == mul_delta(delta(P), d)
    IN  IF d > 0
        THEN LET anchor == end(P, or_else(date, t))
             IN  <<anchor, add_delta(anchor, duration)>>
        ELSE LET anchor == start(P, or_else(date, t))
             IN  <<add_delta(anchor, duration), anchor>>

Query(start_at, end_at, a) ==
    [start_at |-> start_at, end_at |-> end_at, date |-> a.date, delta |-> a.delta,
     period |-> a.period, skip_blanks |-> a.skip_blanks,
     filter_by |-> or_list(a.filter_by), group_by |-> a.group_by,
     sort_by |-> a.sort_by, limit |-> a.limit, collect |-> or_list(a.collect)]

\* a slip: `if delta:` for `if delta is not None:`
Query_create_if_delta(a, t) ==
    IF a.delta # None /\ Val(a.delta) # 0
    THEN IF a.period = None
         THEN [query |-> None, error |-> Some("AttributeError")]
         ELSE LET w == calculate_start_and_end(Val(a.period), a.date, Val(a.delta), t)
              IN  [query |-> Some(Query(Some(w[1]), Some(w[2]), a)), error |-> None]
    ELSE [query |-> Some(Query(a.start_at, a.end_at, a)), error |-> None]

\* a slip: without a period the window is left as the caller gave it
Query_create_without_period(a, t) ==
    IF a.delta # None /\ a.period # None
    THEN LET w == calculate_start_and_end(Val(a.period), a.date, Val(a.delta), t)
         IN  [query |-> Some(Query(Some(w[1]), Some(w[2]), a)), error |-> None]
    ELSE [query |-> Some(Query(a.start_at, a.end_at, a)), error |-> None]

\* Query.create(**a), with now() = t: the Query returned, or the exception raised
\* (period.delta of a period that is None)
Query_create(a, t) ==
    IF a.delta # None
    THEN IF a.period = None
         THEN [query |-> None, error |-> Some("AttributeError")]
         ELSE LET w == calculate_start_and_end(Val(a.period), a.date, Val(a.delta), t)
              IN  [query |-> Some(Query(Some(w[1]), Some(w[2]), a)), error |-> None]
    ELSE [query |-> Some(Query(a.start_at, a.end_at, a)), error |-> None]

(***************************************************************************)
(* Query execution and the translation to storage terms.  A Python str is  *)
(* the sequence of its pieces, so that a key built by formatting and a key *)
(* given whole are values of one kind.                                     *)
(***************************************************************************)
text(s) == <<s>>

\* a str as the value of a filter
str(s) == [str |-> text(s)]

\* Python truth of an optional str or list
truthy(x) == x # None /\ Val(x) # <<>>

\* a call on the repository
storage_call(op, keys, sort, limit, collect) ==
    [op |-> op, keys |-> keys, sort |-> sort, limit |-> limit, collect |-> collect]

get_period_key(q) == start_at_key(Val(q.period))

\* a slip: the gaps filled as soon as one bound of the window is known
fill_missing_periods_either(q) ==
    IF q.start_at # None \/ q.end_at # None
    THEN Some(<<q.start_at, q.end_at, q.collect>>)
    ELSE None

\* if self.start_at and self.end_at:
\*     results.fill_missing_periods(self.start_at, self.end_at, collect=self.collect)
fill_missing_periods(q) ==
    IF q.start_at # None /\ q.end_at # None
    THEN Some(<<q.start_at, q.end_at, q.collect>>)
    ELSE None

execute_period_group_query(q) ==
    [calls |-> <<storage_call("multi_group", <<Val(q.group_by), get_period_key(q)>>,
                              q.sort_by, q.limit, Some(q.collect))>>,
     result |-> [shape |-> "PeriodGroupedData", fill |-> fill_missing_periods(q)]]

execute_grouped_query(q) ==
    [calls |-> <<storage_call("group", <<Val(q.group_by)>>, q.sort_by, q.limit,
                              Some(q.collect))>>,
     result |-> [shape |-> "GroupedData", fill |-> None]]

execute_period_query(q) ==
    [calls |-> <<storage_call("group", <<get_period_key(q)>>,
                              Some(<<get_period_key(q), text("ascending")>>), q.limit,
                              Some(q.collect))>>,
     result |-> [shape |-> "PeriodData", fill |-> fill_missing_periods(q)]]

execute_query(q) ==
    [calls |-> <<storage_call("find", <<>>, q.sort_by, q.limit, None)>>,
     result |-> [shape |-> "SimpleData", fill |-> None]]

\* a slip: the period looked at before the group_by
execute_period_first(q) ==
    IF q.period # None THEN execute_period_query(q)
    ELSE IF truthy(q.group_by) THEN execute_grouped_query(q)
    ELSE execute_query(q)

execute(q) ==
    IF truthy(q.group_by) /\ q.period # None THEN execute_period_group_query(q)
    ELSE IF truthy(q.group_by) THEN execute_grouped_query(q)
    ELSE IF q.period # None THEN execute_period_query(q)
    ELSE execute_query(q)

\* what a call on the repository can do: return (None), or raise
StorageOutcomes == {None, Some("AutoReconnect"), Some("OperationFailure")}

\* a slip: a failed repository call made once more, and its answer used
Query_execute_retrying(q, failure) ==
    IF failure # None
    THEN [calls |-> execute(q).calls \o execute(q).calls,
          result |-> Some(execute(q).result), error |-> None]
    ELSE [calls |-> execute(q).calls, result |-> Some(execute(q).result), error |-> None]

\* Query.execute(repository) when the repository call raises `failure` or, with
\* None, returns: nothing catches the exception, so it leaves execute at the call
Query_execute(q, failure) ==
    IF failure # None
    THEN [calls |-> execute(q).calls, result |-> None, error |-> failure]
    ELSE [calls |-> execute(q).calls, result |-> Some(execute(q).result), error |-> None]

\* dict(items): of the items of one key the last stays
RECURSIVE dict(_)
dict(items) ==
    IF items = <<>> THEN <<>>
    ELSE LET n == Len(items)
         IN  (items[n][1] :> items[n][2]) @@ dict(SubSeq(items, 1, n - 1))

\* the dict under _timestamp: $gte and $lt, each there when its bound is
time_range(start_at, end_at) == [gte |-> start_at, lt |-> end_at]

\* Query.to_mongo_query: the time range first, then update(filter_by)
to_mongo_query(q) ==
    LET mongo_query_0 ==
            IF q.start_at # None \/ q.end_at # None
            THEN (text("_timestamp") :> time_range(q.start_at, q.end_at))
            ELSE <<>>
    IN  IF q.filter_by # <<>> THEN dict(q.filter_by) @@ mongo_query_0 ELSE mongo_query_0

\* time_range_to_mongo_query(start_at, end_at).items()
time_range_to_mongo_query(start_at, end_at) ==
    IF start_at # None \/ end_at # None
    THEN << <<text("_timestamp"), time_range(start_at, end_at)>> >>
    ELSE <<>>

\* dict(query.filter_by + time_range.items())
get_mongo_spec(q) ==
    dict(q.filter_by \o time_range_to_mongo_query(q.start_at, q.end_at))

\* pymongo.ASCENDING is 1, pymongo.DESCENDING is -1; dict.get gives None otherwise
get_mongo_sort_direction(direction) ==
    IF direction = text("ascending") THEN Some(1)
    ELSE IF direction = text("descending") THEN Some(0 - 1)
    ELSE None

get_mongo_sort(q) ==
    IF truthy(q.sort_by)
    THEN Some(<< <<Val(q.sort_by)[1], get_mongo_sort_direction(Val(q.sort_by)[2])>> >>)
    ELSE None

(***************************************************************************)
(* Request arguments.  A request is a MultiDict: under each key the list   *)
(* of the values given.  A number is given as its characters, a filter_by, *)
(* sort_by or collect value as its pieces with every ":" a piece, and a    *)
(* time as a local time and its offset from UTC in hours.                  *)
(***************************************************************************)
\* MultiDict.get(key): the first value of the key, or None
get(request_args, key) ==
    IF request_args[key] = <<>> THEN None ELSE Some(request_args[key][1])

getlist(request_args, key) == request_args[key]

\* if value is not None: return func(value); applied stands for func(value),
\* which is looked at only when there is a value
if_present(applied, value) == IF value # None THEN applied ELSE None

\* timeutils.parse_time_as_utc: the instant, moved to UTC
parse_time_as_utc(raw) == Some(add_timedelta(raw.local, 0, 0 - raw.utcoffset))

digit(c) == CHOOSE d \in 0..9 : <<"0", "1", "2", "3", "4", "5", "6", "7", "8", "9">>[d + 1] = c

RECURSIVE digits(_)
digits(cs) ==
    IF cs = <<>> THEN 0
    ELSE digits(SubSeq(cs, 1, Len(cs) - 1)) * 10 + digit(cs[Len(cs)])

\* int(str) of a decimal numeral with or without a sign
int(cs) == Some(IF Head(cs) = "-" THEN 0 - digits(Tail(cs)) ELSE digits(cs))

\* parse_period: the first of PERIODS of that name, or None
parse_period(period_name) ==
    LET named == {i \in 1..Len(PERIODS) : text(PERIODS[i]) = period_name}
    IN  IF named = {} THEN None
        ELSE Some(PERIODS[CHOOSE i \in named : \A j \in named : i <= j])

\* {"true": True, "false": False}.get(value, value)
boolify(value) ==
    Some(IF value = text("true") THEN [bool |-> TRUE]
         ELSE IF value = text("false") THEN [bool |-> FALSE]
         ELSE [str |-> value])

\* str.split(':', 1)
split_once(t) ==
    LET colons == {i \in 1..Len(t) : t[i] = ":"}
    IN  IF colons = {} THEN <<t>>
        ELSE LET i == CHOOSE c \in colons : \A d \in colons : c <= d
             IN  <<SubSeq(t, 1, i - 1), SubSeq(t, i + 1, Len(t))>>

\* str.split(':')
RECURSIVE split(_)
split(t) ==
    IF Len(split_once(t)) = 1 THEN <<t>>
    ELSE <<split_once(t)[1]>> \o split(split_once(t)[2])

\* key, value = filter_by.split(':', 1); return [key, boolify(value)]
parse_filter_by(filter_by) ==
    <<split_once(filter_by)[1], Val(boolify(split_once(filter_by)[2]))>>

parse_sort_by(sort_by) == Some(split_once(sort_by))

parse_collect(collect_arg) ==
    IF \E i \in 1..Len(collect_arg) : collect_arg[i] = ":"
    THEN split(collect_arg)
    ELSE <<collect_arg, text("default")>>

\* parse_request_args(request_args): the mapping returned
parse_request_args(request_args) ==
    [start_at |-> if_present(parse_time_as_utc(Val(get(request_args, "start_at"))),
                  get(request_args, "start_at")),
     end_at |-> if_present(parse_time_as_utc(Val(get(request_args, "end_at"))),
                  get(request_args, "end_at")),
     delta |-> if_present(int(Val(get(request_args, "delta"))),
                  get(request_args, "delta")),
     date |-> if_present(parse_time_as_utc(Val(get(request_args, "date"))),
                  get(request_args, "date")),
     period |-> if_present(parse_period(Val(get(request_args, "period"))),
                  get(request_args, "period")),
     skip_blanks |-> if_present(boolify(Val(get(request_args, "skip_blanks"))),
                  get(request_args, "skip_blanks")),
     filter_by |-> [i \in 1..Len(getlist(request_args, "filter_by")) |->
                       parse_filter_by(getlist(request_args, "filter_by")[i])],
     group_by |-> get(request_args, "group_by"),
     sort_by |-> if_present(parse_sort_by(Val(get(request_args, "sort_by"))),
                  get(request_args, "sort_by")),
     limit |-> if_present(int(Val(get(request_args, "limit"))),
                  get(request_args, "limit")),
     collect |-> [i \in 1..Len(getlist(request_args, "collect")) |->
                     parse_collect(getlist(request_args, "collect")[i])]]

\* a slip: a bound the request gives kept in place of the derived one
Query_parse_keeping_bounds(request_args, t) ==
    LET a == parse_request_args(request_args)
    IN  IF a.delta # None
        THEN IF a.period = None
             THEN [query |-> None, error |-> Some("AttributeError")]
             ELSE LET w == calculate_start_and_end(Val(a.period), a.date, Val(a.delta), t)
                  IN  [query |-> Some([a EXCEPT !.start_at = Some(or_else(a.start_at, w[1])),
                                                !.end_at = Some(or_else(a.end_at, w[2]))]),
                       error |-> None]
        ELSE [query |-> Some(a), error |-> None]

\* Query.parse(request_args), with now() = t: Query(**args) after the window of a
\* delta is put in args, or the exception raised (period.delta of a period that
\* is None)
Query_parse(request_args, t) ==
    LET a == parse_request_args(request_args)
    IN  IF a.delta # None
        THEN IF a.period = None
             THEN [query |-> None, error |-> Some("AttributeError")]
             ELSE LET w == calculate_start_and_end(Val(a.period), a.date, Val(a.delta), t)
                  IN  [query |-> Some([a EXCEPT !.start_at = Some(w[1]),
                                                !.end_at = Some(w[2])]),
                       error |-> None]
        ELSE [query |-> Some(a), error |-> None]

(***************************************************************************)
(* The arguments of Query.create.                                          *)
(***************************************************************************)
MaxDelta == 3

Option(S) == {None} \cup {Some(x) : x \in S}

QueryDates ==
    {datetime(2014, 1, 9, 0, 0, 0, 0), datetime(2014, 1, 9, 1, 2, 3, 0),
     datetime(2015, 12, 31, 23, 59, 59, 999999), datetime(2016, 1, 1, 0, 0, 0, 0),
     datetime(2016, 2, 1, 0, 0, 0, 0), datetime(2016, 2, 29, 0, 30, 0, 0),
     datetime(2016, 11, 30, 12, 0, 0, 0)}

Nows == {datetime(2016, 3, 31, 9, 15, 0, 0), datetime(2016, 7, 1, 0, 0, 0, 0)}

SuppliedStarts == {datetime(2012, 12, 12, 8, 12, 43, 0)}
SuppliedEnds == {datetime(2012, 12, 13, 8, 12, 43, 0)}

MaxFilters == 2

\* windows: every way to give or leave out a bound, a date, a delta and a period
WindowArgs ==
    [start_at : Option(SuppliedStarts), end_at : Option(SuppliedEnds),
     date : Option(QueryDates), delta : Option((0 - MaxDelta)..MaxDelta),
     period : Option(PeriodNames), skip_blanks : {None}, filter_by : {None},
     group_by : {None}, sort_by : {None}, limit : {None}, collect : {None}]

SortBys ==
    {None, Some(<<text("k"), text("ascending")>>), Some(<<text("k"), text("descending")>>),
     Some(<<text("k"), text("random")>>)}

\* shapes: a group_by (absent, empty or a key) with or without a period, a sort
\* and a limit, and a window given by bounds or by a delta
DispatchArgs ==
    [start_at : Option(SuppliedStarts), end_at : Option(SuppliedEnds),
     date : {None}, delta : {None, Some(0 - 1)},
     period : Option({"week", "month"}), skip_blanks : {None}, filter_by : {None},
     group_by : {None, Some(<<>>), Some(text("k"))}, sort_by : SortBys,
     limit : {None, Some(0), Some(5)},
     collect : {None, Some(<< <<text("j"), text("default")>> >>)}]

\* equality filters: two on one key, one on another key, one on _timestamp
FilterPairs ==
    {<<text("k"), str("a")>>, <<text("k"), str("b")>>, <<text("j"), str("a")>>,
     <<text("_timestamp"), str("t")>>}

\* filters: up to MaxFilters pairs, with every way to give the bounds
FilterArgs ==
    [start_at : Option(SuppliedStarts), end_at : Option(SuppliedEnds),
     date : {None}, delta : {None}, period : Option({"week"}), skip_blanks : {None},
     filter_by : Option(SeqsUpTo(FilterPairs, MaxFilters)),
     group_by : {None}, sort_by : {None}, limit : {None}, collect : {None}]

QueryArgs == WindowArgs \cup DispatchArgs \cup FilterArgs

(***************************************************************************)
(* The request arguments of Query.parse and parse_request_args.            *)
(***************************************************************************)
\* the times of the tests of parse_request_args, and one given an hour east of UTC
RawTimes ==
    {[local |-> datetime(2014, 1, 9, 0, 0, 0, 0), utcoffset |-> 0],
     [local |-> datetime(2014, 1, 9, 1, 2, 3, 0), utcoffset |-> 0],
     [local |-> datetime(2014, 1, 11, 23, 58, 57, 0), utcoffset |-> 0],
     [local |-> datetime(2014, 1, 12, 0, 30, 0, 0), utcoffset |-> 1]}

RawBounds ==
    {[local |-> datetime(2012, 12, 12, 8, 12, 43, 0), utcoffset |-> 0],
     [local |-> datetime(2012, 12, 13, 9, 12, 43, 0), utcoffset |-> 1]}

Numerals == {<<"0">>, <<"1">>, <<"3">>, <<"1", "2">>, <<"-", "1">>, <<"-", "3">>}

NoneOrOne(S) == {<<>>} \cup {<<x>> : x \in S}

\* windows: a period and a delta with or without a date and bounds
WindowRequests ==
    [start_at : NoneOrOne(RawBounds) \cup {<<x, y>> : x, y \in RawBounds},
     end_at : NoneOrOne(RawBounds),
     delta : NoneOrOne(Numerals), date : NoneOrOne(RawTimes),
     period : NoneOrOne({text("day"), text("week"), text("month"), text("fortnight")}),
     skip_blanks : {<<>>}, filter_by : {<<>>}, group_by : {<<>>}, sort_by : {<<>>},
     limit : {<<>>}, collect : {<<>>}]

\* the other arguments
OtherRequests ==
    [start_at : {<<>>}, end_at : NoneOrOne(RawBounds), delta : {<<>>}, date : {<<>>},
     period : NoneOrOne({text("week")}),
     skip_blanks : NoneOrOne({text("true"), text("no")}),
     filter_by : {<<>>, << <<"k", ":", "a">> >>,
                  << <<"k", ":", "true">>, <<"j", ":", "a", ":", "b">> >>},
     group_by : NoneOrOne({text("k")}),
     sort_by : NoneOrOne({<<"k", ":", "descending">>}),
     limit : NoneOrOne({<<"5">>}),
     collect : {<<>>, << <<"j">>, <<"j", ":", "mean">> >>}]

Requests == WindowRequests \cup OtherRequests

QueryIdle ==
    /\ query = None
    /\ error = None
    /\ calls = None /\ raised = None /\ result = None
    /\ mongo_query = None /\ mongo_spec = None /\ mongo_sort = None
    /\ period = None
    /\ timestamp = None /\ endstamp = None /\ started = None /\ restarted = None
    /\ ended = None /\ ranged = None /\ valid = None
    /\ fill_start = None /\ fill_end = None /\ data = None /\ default = None
    /\ default_after = None
    /\ group_by = None /\ permutations = None /\ results = None
    /\ permutations_again = None /\ results_again = None

QueryInit ==
    /\ now \in Nows
    /\ \/ pc = "args" /\ args \in QueryArgs /\ request = None
       \/ pc = "request" /\ request \in Requests /\ args = None
    /\ QueryIdle
    /\ RestIdle

Create ==
    /\ pc = "args"
    /\ query' = Query_create(args, now).query
    /\ error' = Query_create(args, now).error
    /\ pc' = "created"
    /\ UNCHANGED <<restVars, period, periodVars, fillVars, now, args, request, calls, raised, result,
                   mongo_query, mongo_spec, mongo_sort>>

\* a Query was built, by Query.create or by Query.parse
Built == pc \in {"created", "parsed"} /\ query # None

\* Query.execute(repository): the repository call returns a cursor or raises
Execute ==
    /\ Built
    /\ \E failure \in StorageOutcomes :
          /\ raised' = failure
          /\ calls' = Query_execute(Val(query), failure).calls
          /\ result' = Query_execute(Val(query), failure).result
          /\ error' = Query_execute(Val(query), failure).error
          /\ pc' = IF failure = None THEN "executed" ELSE "execute_failed"
    /\ UNCHANGED <<restVars, period, periodVars, fillVars, now, args, request, query,
                   mongo_query, mongo_spec, mongo_sort>>

\* Query.to_mongo_query()
ToMongoQuery ==
    /\ Built
    /\ mongo_query' = Some(to_mongo_query(Val(query)))
    /\ pc' = "to_mongo_query"
    /\ UNCHANGED <<restVars, period, periodVars, fillVars, now, args, request, query, error,
                   calls, raised, result, mongo_spec, mongo_sort>>

\* get_mongo_spec(query)
GetMongoSpec ==
    /\ Built
    /\ mongo_spec' = Some(get_mongo_spec(Val(query)))
    /\ pc' = "mongo_spec"
    /\ UNCHANGED <<restVars, period, periodVars, fillVars, now, args, request, query, error,
                   calls, raised, result, mongo_query, mongo_sort>>

\* get_mongo_sort(query)
GetMongoSort ==
    /\ Built
    /\ mongo_sort' = Some(get_mongo_sort(Val(query)))
    /\ pc' = "mongo_sort"
    /\ UNCHANGED <<restVars, period, periodVars, fillVars, now, args, request, query, error,
                   calls, raised, result, mongo_query, mongo_spec>>

\* parse_request_args(request_args)
ParseRequestArgs ==
    /\ pc = "request"
    /\ args' = parse_request_args(request)
    /\ pc' = "request_args"
    /\ UNCHANGED <<restVars, period, periodVars, fillVars, now, request, query, error, calls, raised, result,
                   mongo_query, mongo_spec, mongo_sort>>

\* Query.parse(request_args)
Parse ==
    /\ pc = "request"
    /\ query' = Query_parse(request, now).query
    /\ error' = Query_parse(request, now).error
    /\ pc' = "parsed"
    /\ UNCHANGED <<restVars, period, periodVars, fillVars, now, args, request, calls, raised, result,
                   mongo_query, mongo_spec, mongo_sort>>

QueryNext ==
    \/ Create
    \/ ParseRequestArgs
    \/ Parse
    \/ Execute
    \/ ToMongoQuery
    \/ GetMongoSpec
    \/ GetMongoSort

SpecQuery == QueryInit /\ [][QueryNext]_vars

(***************************************************************************)
(* The sign-on pages of the admin UI, with the test sign-in not set up.    *)
(* A session is the mapping flask keeps for the browser: its "user" and    *)
(* the messages flashed and not yet shown.                                 *)
(***************************************************************************)
\* the variables of the periods, the fills and the queries, when none has run
CoreIdle == QueryIdle /\ now = None /\ args = None /\ request = None

MaxFlashes == 3

SignonUsers ==
    {[name |-> "test", email |-> "test@example.com"],
     [name |-> "bob", email |-> "bob@example.com"]}

\* the answers of the sign-on service to the token request: a status and, when
\* the body holds one, an access token
TokenResponses == [status_code : {200, 401}, access_token : {None, Some("token")}]

\* the answers of the sign-on service to the request for user.json
UserDetailsResponses ==
    [status_code : {200, 500},
     json : [user : {[name |-> u.name, email |-> u.email, permissions |-> p] :
                        u \in SignonUsers, p \in {{}, {"signin"}, {"signin", "admin"}}}]]

\* the code of the request: none, an empty one, one
AuthCodes == {None, Some(""), Some("12345")}

\* Signonotron2.exchange(code): the token of a 200 or 201 answer that holds one
exchange(token_response) ==
    IF token_response.status_code \in {200, 201}
    THEN token_response.access_token
    ELSE None

\* Signonotron2.user_details(access_token): (details, can sign in), or (None, None)
user_details(access_token, details_response) ==
    IF access_token = None THEN <<None, None>>
    ELSE IF details_response.status_code \in {200, 201}
    THEN <<Some(details_response.json),
           Some("signin" \in details_response.json.user.permissions)>>
    ELSE <<None, None>>

\* flask.flash(message, category): the message appended to session['_flashes']
flash(s, message, category) ==
    LET flashes == IF "_flashes" \in DOMAIN s THEN s["_flashes"] ELSE <<>>
    IN  ("_flashes" :> Append(flashes, <<category, message>>)) @@ s

\* _create_session_user(name, email): session.update({"user": {...}})
create_session_user(s, name, email) ==
    ("user" :> [name |-> name, email |-> email]) @@ s

redirect(location) == [status |-> 302, location |-> Some(location)]

\* oauth_sign_out: session.clear(), a flash, the sign-out page
oauth_sign_out(s) ==
    [session |-> flash(<<>>, "signed out", "success"),
     response |-> [status |-> 200, location |-> None]]

\* a slip: a user whose details could be read is signed in, permitted or not
oauth_authorized_any_permission(s, r) ==
    IF r.code = None \/ r.code = Some("")
    THEN [session |-> s, response |-> [status |-> 400, location |-> None]]
    ELSE LET access_token == exchange(r.token_response)
             details == user_details(access_token, r.details_response)
         IN  IF details[2] = None
             THEN [session |-> flash(s, "could not authenticate", "error"),
                   response |-> redirect("not_authorized")]
             ELSE [session |-> flash(create_session_user(s, Val(details[1]).user.name,
                                                         Val(details[1]).user.email),
                                     "signed in", "success"),
                   response |-> redirect("user_route")]

\* oauth_authorized: abort(400) without a code; else the code is exchanged, the
\* user details are read and the user is written to the session when they may
\* sign in
oauth_authorized(s, r) ==
    IF r.code = None \/ r.code = Some("")
    THEN [session |-> s, response |-> [status |-> 400, location |-> None]]
    ELSE LET access_token == exchange(r.token_response)
             details == user_details(access_token, r.details_response)
         IN  IF details[2] = None
             THEN [session |-> flash(s, "could not authenticate", "error"),
                   response |-> redirect("not_authorized")]
             ELSE IF details[2] = Some(FALSE)
             THEN [session |-> flash(s, "no permission", "message"),
                   response |-> redirect("not_authorized")]
             ELSE [session |-> flash(create_session_user(s, Val(details[1]).user.name,
                                                         Val(details[1]).user.email),
                                     "signed in", "success"),
                   response |-> redirect("user_route")]

\* the messages flashed and not yet shown
Flashes(s) == IF "_flashes" \in DOMAIN s THEN s["_flashes"] ELSE <<>>

SignonInit ==
    /\ pc = "signon"
    /\ session = Some(<<>>)
    /\ signon_request = None
    /\ response = None
    /\ CoreIdle /\ TransformIdle /\ SaveIdle /\ ScanIdle /\ ThreadIdle

\* GET /_user/authorized
Authorized ==
    /\ pc = "signon"
    /\ Len(Flashes(Val(session))) < MaxFlashes
    /\ \E code \in AuthCodes, t \in TokenResponses, d \in UserDetailsResponses :
          LET r == [path |-> "authorized", code |-> code, token_response |-> Some(t),
                    details_response |-> Some(d)]
              done == oauth_authorized(Val(session),
                          [code |-> code, token_response |-> t, details_response |-> d])
          IN  /\ signon_request' = Some(r)
              /\ session' = Some(done.session)
              /\ response' = Some(done.response)
    /\ UNCHANGED <<pc, coreVars, transformVars, saveVars, scanVars, threadVars>>

\* GET /_user/sign_out
SignOut ==
    /\ pc = "signon"
    /\ signon_request' = Some([path |-> "sign_out", code |-> None, token_response |-> None,
                               details_response |-> None])
    /\ session' = Some(oauth_sign_out(Val(session)).session)
    /\ response' = Some(oauth_sign_out(Val(session)).response)
    /\ UNCHANGED <<pc, coreVars, transformVars, saveVars, scanVars, threadVars>>

SignonNext == Authorized \/ SignOut

SpecSignon == SignonInit /\ [][SignonNext]_vars

(***************************************************************************)
(* The query parameters of a transform (backdrop.transformers.dispatch).   *)
(* A transform is a mapping; of its keys the model holds 'type' and, when  *)
(* the transform has it, 'query-parameters'.                               *)
(***************************************************************************)
\* datetime.isoformat(): the text of the instant
isoformat(dt) == [isoformat |-> dt]

\* the transforms stagecraft gives: without query parameters, with an empty
\* mapping, with and without a period
Transforms ==
    [type : {"rate"},
     query_parameters :
        {None, Some(<<>>), Some(("period" :> "week")),
         Some(("group_by" :> "k")), Some(("period" :> "day") @@ ("collect" :> "j:sum"))}]

TransformDates ==
    {datetime(2014, 1, 9, 0, 0, 0, 0), datetime(2014, 1, 9, 1, 2, 3, 0),
     datetime(2016, 2, 29, 0, 30, 0, 0), datetime(2016, 3, 1, 0, 0, 0, 0)}

\* d[key] = value
setitem(d, key, value) == (key :> value) @@ d

\* get_query_parameters(transform, earliest, latest): the mapping returned, and
\* the transform as the call leaves it.  transform.get('query-parameters', {}) is
\* the transform's own mapping when it has one, and the items are set in it.
get_query_parameters(t, earliest, latest) ==
    LET own == t.query_parameters # None
        params == IF own THEN Val(t.query_parameters) ELSE <<>>
        flat == setitem(params, "flatten", "true")
        set == IF earliest = latest
               THEN IF "period" \in DOMAIN flat
                    THEN setitem(setitem(flat, "duration", 1),
                                 "start_at", isoformat(latest))
                    ELSE setitem(setitem(setitem(flat, "inclusive", "true"),
                                         "start_at", isoformat(earliest)),
                                 "end_at", isoformat(latest))
               ELSE setitem(setitem(flat, "start_at", isoformat(earliest)),
                            "end_at", isoformat(latest))
    IN  [query_parameters |-> set,
         transform |-> IF own THEN [t EXCEPT !.query_parameters = Some(set)] ELSE t]

TransformInit ==
    /\ pc = "transform"
    /\ transform \in Transforms
    /\ transform_given = transform
    /\ span = None
    /\ query_parameters = None
    /\ CoreIdle /\ SignonIdle /\ SaveIdle /\ ScanIdle /\ ThreadIdle

\* one call of get_query_parameters on the transform the caller holds
GetQueryParameters ==
    /\ pc \in {"transform", "query_parameters"}
    /\ \E earliest, latest \in TransformDates :
          /\ span' = <<earliest, latest>>
          /\ query_parameters' =
                 Some(get_query_parameters(transform, earliest, latest).query_parameters)
          /\ transform' = get_query_parameters(transform, earliest, latest).transform
    /\ pc' = "query_parameters"
    /\ UNCHANGED <<transform_given, coreVars, signonVars, saveVars, scanVars, threadVars>>

TransformNext == GetQueryParameters

SpecTransform == TransformInit /\ [][TransformNext]_vars

(***************************************************************************)
(* reconnecting_save(collection, record, tries): collection.save, called   *)
(* again by the recursive invocation when it raised AutoReconnect and more *)
(* than one try is left.                                                   *)
(***************************************************************************)
MaxTries == 3

SaveRecords == {"r1", "r2"}

\* what collection.save can do: return, raise AutoReconnect, raise something else
SaveOutcomes == {"saved", "AutoReconnect", "OperationFailure"}

\* a slip: one more invocation while any try is left
reconnecting_save_while_tries(left, outcome) ==
    IF outcome = "saved" THEN [pc |-> "saved", tries |-> left, raised |-> None]
    ELSE IF outcome = "AutoReconnect"
    THEN IF left > 0
         THEN [pc |-> "save", tries |-> left - 1, raised |-> None]
         ELSE [pc |-> "save_failed", tries |-> left, raised |-> Some(outcome)]
    ELSE [pc |-> "save_failed", tries |-> left, raised |-> Some(outcome)]

\* one invocation of reconnecting_save with `left` tries after collection.save
\* ended with `outcome`: return, the recursive invocation with tries - 1, or raise
reconnecting_save(left, outcome) ==
    IF outcome = "saved" THEN [pc |-> "saved", tries |-> left, raised |-> None]
    ELSE IF outcome = "AutoReconnect"
    THEN IF left > 1
         THEN [pc |-> "save", tries |-> left - 1, raised |-> None]
         ELSE [pc |-> "save_failed", tries |-> left, raised |-> Some(outcome)]
    ELSE [pc |-> "save_failed", tries |-> left, raised |-> Some(outcome)]

SaveInit ==
    /\ pc = "save"
    /\ tries \in (0 - 1)..MaxTries
    /\ tries_left = tries
    /\ record \in SaveRecords
    /\ collection \in SUBSET SaveRecords
    /\ saves = <<>>
    /\ save_raised = None
    /\ CoreIdle /\ SignonIdle /\ TransformIdle /\ ScanIdle /\ ThreadIdle

\* collection.save(record) and what the invocation does with its outcome; a save
\* that raised may or may not have written the record
CollectionSave ==
    /\ pc = "save"
    /\ \E outcome \in SaveOutcomes, written \in BOOLEAN :
          /\ outcome = "saved" => written
          /\ saves' = Append(saves, outcome)
          /\ collection' = IF written THEN collection \cup {record} ELSE collection
          /\ pc' = reconnecting_save(tries_left, outcome).pc
          /\ tries_left' = reconnecting_save(tries_left, outcome).tries
          /\ save_raised' = reconnecting_save(tries_left, outcome).raised
    /\ UNCHANGED <<tries, record, coreVars, signonVars, transformVars, scanVars, threadVars>>

SaveNext == CollectionSave

\* a call that has begun runs on: nothing in it waits
SpecSave == SaveInit /\ [][SaveNext]_vars /\ WF_vars(SaveNext)

(***************************************************************************)
(* ScannedFile.has_virus_signature.  The uploaded file is a stream of      *)
(* `size` bytes read from `position`; Python's True, False and None are    *)
(* the values "True", "False" and "None".                                  *)
(***************************************************************************)
MaxScans == 3

\* the uploads: a name as the browser gave it, and a size
UploadedFiles == [filename : {"a.csv", "dir/b.xls"}, size : {0, 7}]

\* os.path.basename(filename)
basename(filename) == IF filename = "dir/b.xls" THEN "b.xls" ELSE filename

\* ScannedFile(file_object)
ScannedFile(file_object) ==
    [file_object |-> [filename |-> file_object.filename, size |-> file_object.size,
                      position |-> 0],
     virus_signature |-> "False",
     file_path |-> <<"/tmp/", basename(file_object.filename)>>]

\* the return codes of clamdscan: 0 no virus, 1 virus found, 2 an error; a
\* process ended by a signal has a negative one
Retcodes == {0, 1, 2, 0 - 9}

\* _clamscan(filename): False, True, SystemError, or None for another code
clamscan(retcode) ==
    IF retcode = 0 THEN [value |-> "False", raised |-> None]
    ELSE IF retcode = 1 THEN [value |-> "True", raised |-> None]
    ELSE IF retcode = 2 THEN [value |-> "None", raised |-> Some("SystemError")]
    ELSE [value |-> "None", raised |-> None]

\* _save_file_to_disk: the stream is written to _file_path and is left at its end
save_file_to_disk(sf, tmp) ==
    [scanned_file |-> [sf EXCEPT !.file_object.position = sf.file_object.size],
     tmp_files |-> tmp \cup {sf.file_path}]

\* _clean_up: os.remove(_file_path) and file_object.seek(0)
clean_up(sf, tmp) ==
    [scanned_file |-> [sf EXCEPT !.file_object.position = 0],
     tmp_files |-> tmp \ {sf.file_path}]

\* the property has_virus_signature: _save_file_to_disk(), _scan_file(),
\* _clean_up(), return _virus_signature.  _scan_file runs the scanner only when
\* _virus_signature is not yet True, and an exception of the scanner leaves the
\* property at once.
has_virus_signature(sf, tmp, retcode) ==
    LET saved == save_file_to_disk(sf, tmp)
        scans == sf.virus_signature # "True"
        scan == clamscan(retcode)
    IN  IF scans /\ scan.raised # None
        THEN [scanned_file |-> saved.scanned_file, tmp_files |-> saved.tmp_files,
              scanned |-> TRUE, returned |-> None, raised |-> scan.raised]
        ELSE LET signed == [saved.scanned_file EXCEPT
                               !.virus_signature = IF scans THEN scan.value ELSE "True"]
                 cleaned == clean_up(signed, saved.tmp_files)
             IN  [scanned_file |-> cleaned.scanned_file, tmp_files |-> cleaned.tmp_files,
                  scanned |-> scans, returned |-> Some(signed.virus_signature),
                  raised |-> None]

ScanInit ==
    /\ pc = "scan"
    /\ \E f \in UploadedFiles : scanned_file = ScannedFile(f)
    /\ tmp_files = {}
    /\ retcodes = <<>>
    /\ returned = None
    /\ scan_raised = None
    /\ CoreIdle /\ SignonIdle /\ TransformIdle /\ SaveIdle /\ ThreadIdle

\* one evaluation of has_virus_signature
HasVirusSignature ==
    /\ pc \in {"scan", "evaluated"}
    /\ Len(retcodes) < MaxScans
    /\ \E retcode \in Retcodes :
          LET done == has_virus_signature(scanned_file, tmp_files, retcode)
          IN  /\ scanned_file' = done.scanned_file
              /\ tmp_files' = done.tmp_files
              /\ retcodes' = IF done.scanned THEN Append(retcodes, retcode) ELSE retcodes
              /\ returned' = done.returned
              /\ scan_raised' = done.raised
    /\ pc' = "evaluated"
    /\ UNCHANGED <<coreVars, signonVars, transformVars, saveVars, threadVars>>

ScanNext == HasVirusSignature

SpecScan == ScanInit /\ [][ScanNext]_vars

(***************************************************************************)
(* Concurrent callers.  Every caller runs one call of Period.start,        *)
(* Period.end, Period.range, timeseries or fill_group_by_permutations, one *)
(* bucket of its loop at a time, in any interleaving with the others.  The *)
(* callers share the Period singletons and here also the window, the raw   *)
(* rows and the default mapping; the locals of a call are its own.         *)
(***************************************************************************)
MaxCallers == 2

Callers == 1..MaxCallers

CallerOps == {"start", "end", "range", "timeseries", "fill_group_by_permutations"}

\* the Period singletons the callers use: what __init__ set on each
Singletons == [P \in FillPeriods |-> [name |-> P, delta |-> delta(P)]]

SharedStart == datetime(2016, 2, 1, 0, 0, 0, 0)

\* the ends of the window: none, one and two weeks after its start
SharedEnds ==
    {SharedStart, add_delta(SharedStart, delta("week")),
     add_delta(SharedStart, mul_delta(delta("week"), 2))}

\* the raw rows of the request: none, one, two of different groups
SharedData ==
    {<<>>,
     <<row(SharedStart, add_delta(SharedStart, delta("week")), <<"a", "x">>)>>,
     <<row(SharedStart, add_delta(SharedStart, delta("month")), <<"b", "y">>),
       row(add_delta(SharedStart, delta("week")),
           add_delta(SharedStart, mul_delta(delta("week"), 2)), <<"a", "x">>)>>}

\* the group_by of the callers of fill_group_by_permutations
SharedGroupBy == <<"k1">>

ShareInit ==
    [periods : {Singletons}, start : {SharedStart},
     end : SharedEnds,
     data : SharedData, default : {("_count" :> 0)}]

\* a caller that has not called yet
idle_caller ==
    [pc |-> "idle", op |-> "", period |-> "", cursor |-> None, stop |-> None,
     permutations |-> <<>>, results |-> <<>>]

\* the call begun: the locals of the generator of Period.range (_start, _end) and
\* of the fill (permutations, results)
begin_call(op, P, sh, perms) ==
    [pc |-> "running", op |-> op, period |-> P,
     cursor |-> IF op \in {"start", "end"} THEN None ELSE Some(start(P, sh.start)),
     stop |-> IF op \in {"start", "end"} THEN None ELSE Some(end(P, sh.end)),
     permutations |-> perms, results |-> <<>>]

\* what the body of the caller's loop makes of one bucket
bucket_results(th, sh, bucket) ==
    IF th.op = "range" THEN <<bucket>>
    ELSE IF th.op = "timeseries"
    THEN timeseries_over(<<bucket>>, group_by_start_at(sh.data), sh.default)
    ELSE fill_bucket(bucket, th.permutations, sh.data, sh.default, SharedGroupBy)

\* a slip: the position of the generator kept on the Period singleton
caller_step_cursor_on_period(th, sh) ==
    IF th.op = "start"
    THEN [thread |-> [th EXCEPT !.pc = "done", !.results = <<start(th.period, sh.start)>>],
          shared |-> sh]
    ELSE IF th.op = "end"
    THEN [thread |-> [th EXCEPT !.pc = "done", !.results = <<end(th.period, sh.start)>>],
          shared |-> sh]
    ELSE LET singleton == sh.periods[th.period]
             kept == IF "cursor" \in DOMAIN singleton THEN singleton.cursor
                   ELSE Val(th.cursor)
         IN  IF dt_lt(kept, Val(th.stop))
             THEN LET bucket == <<kept, add_delta(kept, singleton.delta)>>
                  IN  [thread |-> [th EXCEPT
                                      !.results = th.results \o bucket_results(th, sh, bucket)],
                       shared |-> [sh EXCEPT !.periods[th.period] =
                                      [name |-> singleton.name, delta |-> singleton.delta,
                                       cursor |-> bucket[2]]]]
             ELSE [thread |-> [th EXCEPT !.pc = "done"], shared |-> sh]

\* one step of a running call: Period.start or Period.end as a whole, or one turn
\* of the loop over Period.range: the generator yields (_start, _start +
\* self._delta) and moves its _start on, the body of the loop adds to results;
\* when _start < _end fails the call returns.  No step assigns to the singleton,
\* the raw rows or the default mapping.
caller_step(th, sh) ==
    IF th.op = "start"
    THEN [thread |-> [th EXCEPT !.pc = "done", !.results = <<start(th.period, sh.start)>>],
          shared |-> sh]
    ELSE IF th.op = "end"
    THEN [thread |-> [th EXCEPT !.pc = "done", !.results = <<end(th.period, sh.start)>>],
          shared |-> sh]
    ELSE IF dt_lt(Val(th.cursor), Val(th.stop))
    THEN LET bucket == <<Val(th.cursor),
                         add_delta(Val(th.cursor), sh.periods[th.period].delta)>>
         IN  [thread |-> [th EXCEPT !.cursor = Some(bucket[2]),
                                    !.results = th.results \o bucket_results(th, sh, bucket)],
              shared |-> sh]
    ELSE [thread |-> [th EXCEPT !.pc = "done"], shared |-> sh]

ThreadInit ==
    /\ pc = "threads"
    /\ threads = [c \in Callers |-> idle_caller]
    /\ shared \in ShareInit
    /\ CoreIdle /\ SignonIdle /\ TransformIdle /\ SaveIdle /\ ScanIdle

\* a caller begins its call
Call(c) ==
    /\ threads[c].pc = "idle"
    /\ \E op \in CallerOps, P \in FillPeriods :
          IF op = "fill_group_by_permutations"
          THEN \E iter \in SetOrders(shared.data, SharedGroupBy) :
                  threads' = [threads EXCEPT ![c] =
                      begin_call(op, P, shared,
                                 all_group_by_permutations(SharedGroupBy, iter))]
          ELSE threads' = [threads EXCEPT ![c] = begin_call(op, P, shared, <<>>)]
    /\ UNCHANGED <<pc, shared, coreVars, signonVars, transformVars, saveVars, scanVars>>

\* a caller's call goes one step on
Step(c) ==
    /\ threads[c].pc = "running"
    /\ threads' = [threads EXCEPT ![c] = caller_step(threads[c], shared).thread]
    /\ shared' = caller_step(threads[c], shared).shared
    /\ UNCHANGED <<pc, coreVars, signonVars, transformVars, saveVars, scanVars>>

ThreadNext == \E c \in Callers : Call(c) \/ Step(c)

SpecThreads == ThreadInit /\ [][ThreadNext]_vars

(***************************************************************************)
(* Properties of the periods.                                              *)
(***************************************************************************)
Buckets == Val(ranged)

\* C5: for s <= e, P.range(s, e) is a finite sequence of buckets (b, n) that is
\* strictly increasing and contiguous (n of one bucket is b of the next), starts
\* at P.start(s), has only valid boundaries of P as bucket starts and ends at
\* P.end(e); it is empty only when P.start(s) = P.end(e); and when s and e are
\* both boundaries k steps apart it has exactly k buckets, none starting at e.
C5_RangeBuckets ==
    (pc = "range" /\ dt_le(timestamp, Val(endstamp))) =>
        LET n == Len(Buckets)
            s == timestamp
            e == Val(endstamp)
        IN  /\ \A i \in 1..n : dt_lt(Buckets[i][1], Buckets[i][2])
            /\ \A i \in 1..(n - 1) : Buckets[i][2] = Buckets[i + 1][1]
            /\ \A i \in 1..n : valid_start_at(period, Buckets[i][1])
            /\ n > 0 => /\ Buckets[1][1] = start(period, s)
                        /\ Buckets[n][2] = end(period, e)
            /\ n = 0 => start(period, s) = end(period, e)
            /\ \A k \in 0..(MaxSteps + 1) :
                  ( /\ valid_start_at(period, s)
                    /\ e = add_delta(s, mul_delta(delta(period), k)) ) =>
                        /\ n = k
                        /\ \A i \in 1..n : Buckets[i][1] # e

\* two buckets between two boundaries, and a window whose ends are both off a boundary
C5_Witness ==
    /\ pc = "range"
    /\ period = "month"
    /\ Len(Buckets) = 2
    /\ ~valid_start_at(period, timestamp)
    /\ ~valid_start_at(period, Val(endstamp))

\* C6: P.start(T) <= T < P.end(T) when T is not a valid boundary of P, and
\* P.end(T) = T when T is a valid boundary of P.
C6_StartEndBracket ==
    pc = "end" =>
        IF valid_start_at(period, timestamp)
        THEN Val(ended) = timestamp
        ELSE /\ dt_le(Val(started), timestamp)
             /\ dt_lt(timestamp, Val(ended))

\* Period.end has been applied to a boundary of a calendar-relative period
C6_Witness ==
    /\ pc = "end"
    /\ period = "quarter"
    /\ valid_start_at(period, timestamp)
    /\ Val(ended) = timestamp

\* C7: P.start(P.start(T)) = P.start(T).
C7_StartIdempotent ==
    pc = "restart" => Val(restarted) = Val(started)

\* Period.start has been applied twice, the first time to an instant it moved
C7_Witness ==
    /\ pc = "restart"
    /\ period = "week"
    /\ Val(started) # timestamp
    /\ Val(restarted) = Val(started)

\* C20: Period.valid_start_at(T) is true exactly when T is the start of its
\* own bucket, that is when Period.start(T) returns T: at midnight where the
\* period is a day or longer, and on the period's calendar boundary.
C20_ValidStartAtIffStart ==
    pc = "valid" => (Val(valid) <=> (Val(started) = timestamp))

\* both answers are seen: an aligned instant that is accepted, and for a
\* period of a day or more an instant on the right date but off midnight
\* that is refused
C20_Witness ==
    /\ pc = "valid"
    /\ period = "quarter"
    /\ timestamp = datetime(2016, 4, 1, 0, 0, 0, 0)
    /\ Val(valid)

C20_WitnessRefused ==
    /\ pc = "valid"
    /\ period = "week"
    /\ weekday(timestamp) = 0
    /\ timestamp.microsecond = 1
    /\ ~Val(valid)

(***************************************************************************)
(* Properties of the fills.                                                *)
(***************************************************************************)
WindowBuckets == range(period, fill_start, fill_end)

RowsOf(rows) == {rows[i] : i \in 1..Len(rows)}

\* two instants with the same UTC epoch second: equal but for the microsecond
SameSecond(a, b) == [a EXCEPT !.microsecond = 0] = [b EXCEPT !.microsecond = 0]

\* the row to synthesize for a bucket: the default, stamped with the bucket's limits
DefaultRow(b) ==
    [k \in DOMAIN default \cup {"_start_at", "_end_at"} |->
        IF k = "_start_at" THEN b[1] ELSE IF k = "_end_at" THEN b[2] ELSE default[k]]

\* the raw rows of a bucket, by epoch second
RowsAt(b) == {j \in 1..Len(data) : SameSecond(data[j]["_start_at"], b[1])}

PeriodFillBucketByBucket ==
    LET wb == WindowBuckets
    IN  /\ Len(results) = Len(wb)
        /\ \A i \in 1..Len(wb) :
              LET mine == RowsAt(wb[i])
              IN  IF mine # {}
                  THEN \E j \in mine : results[i] = data[j]
                  ELSE results[i] = DefaultRow(wb[i])

\* C1 as stated: for raw rows with pairwise distinct _start_at, timeseries returns
\* exactly one entry per bucket of period.range(start, end), in bucket order: the raw
\* row of the bucket's epoch second when there is one, else the default merged with
\* the bucket's _start_at and _end_at.
C1_AsStated ==
    ( /\ pc = "timeseries"
      /\ \A i, j \in 1..Len(data) : i # j => data[i]["_start_at"] # data[j]["_start_at"] )
        => PeriodFillBucketByBucket

\* C1, amended: the same, for raw rows whose _start_at are pairwise distinct as UTC
\* epoch seconds (two rows a fraction of a second apart are both emitted for the
\* bucket they share).
C1_PeriodFill ==
    ( /\ pc = "timeseries"
      /\ \A i, j \in 1..Len(data) :
            i # j => ~SameSecond(data[i]["_start_at"], data[j]["_start_at"]) )
        => PeriodFillBucketByBucket

\* rows for buckets 1 and 3 of a 3-bucket window, bucket 2 synthesized
C1_Witness ==
    /\ pc = "timeseries"
    /\ Len(WindowBuckets) = 3
    /\ Len(data) = 2
    /\ Len(results) = 3
    /\ results[1] \in RowsOf(data)
    /\ results[3] \in RowsOf(data)
    /\ results[2] = DefaultRow(WindowBuckets[2])

\* the group-by values of a row, and its (bucket, group-value) identity
GroupOf(r) == [i \in 1..Len(group_by) |-> r[group_by[i]]]
Identity(r) == <<r["_start_at"], r["_end_at"], GroupOf(r)>>

\* every combination of the values observed for each group-by key
ObservedGroups ==
    {g \in [1..Len(group_by) -> UNION {unique_values(data, group_by[i]) : i \in 1..Len(group_by)}] :
        \A i \in 1..Len(group_by) : g[i] \in unique_values(data, group_by[i])}

Cells ==
    LET wb == WindowBuckets
        groups == ObservedGroups
    IN  {<<wb[b][1], wb[b][2], g>> : b \in 1..Len(wb), g \in groups}

\* the row to synthesize for a cell
DefaultCellRow(c) ==
    [k \in DOMAIN default \cup {"_start_at", "_end_at"} \cup {group_by[i] : i \in 1..Len(group_by)} |->
        IF k = "_start_at" THEN c[1]
        ELSE IF k = "_end_at" THEN c[2]
        ELSE IF \E i \in 1..Len(group_by) : group_by[i] = k
             THEN c[3][CHOOSE i \in 1..Len(group_by) : group_by[i] = k]
             ELSE default[k]]

\* C2: fill_group_by_permutations returns (buckets of the window) x (combinations of
\* the observed group-by values) entries, one per (bucket, combination) cell: a raw
\* row of that cell if there is one, else the default merged with the cell's limits
\* and group values; no two entries share a (bucket, group-value) identity.
C2_GroupedFill ==
    pc = "grouped" =>
        LET cells == Cells
            raw == RowsOf(data)
        IN  /\ Len(results) = Len(WindowBuckets) * Cardinality(ObservedGroups)
            /\ Cardinality({Identity(results[i]) : i \in 1..Len(results)}) = Len(results)
            /\ \A i \in 1..Len(results) :
                  LET id == Identity(results[i])
                      mine == {r \in raw : Identity(r) = id}
                  IN  /\ id \in cells
                      /\ IF mine # {} THEN results[i] \in mine
                         ELSE results[i] = DefaultCellRow(id)

\* two buckets, the group values a and b: four entries, raw and synthesized
C2_Witness ==
    /\ pc = "grouped"
    /\ group_by = <<"k1">>
    /\ Len(WindowBuckets) = 2
    /\ unique_values(data, "k1") = {"a", "b"}
    /\ Len(results) = 4
    /\ \E i \in 1..4 : results[i] \in RowsOf(data)
    /\ \E i \in 1..4 : results[i] \notin RowsOf(data)

\* the raw rows are one row per expected bucket
CompleteForPeriod ==
    LET wb == WindowBuckets
    IN  /\ Len(data) = Len(wb)
        /\ \A b \in 1..Len(wb) : Cardinality(RowsAt(wb[b])) = 1

\* the raw rows are one row per expected (bucket, combination) cell
CompleteForGroups ==
    LET cells == Cells
    IN  /\ Len(data) = Cardinality(cells)
        /\ {Identity(data[i]) : i \in 1..Len(data)} = cells

\* C3 as stated: on raw rows that are already one per expected bucket (or cell), the
\* fill returns the input unchanged, the same rows in the order they were supplied.
C3_AsStated ==
    /\ (pc = "timeseries" /\ CompleteForPeriod) => results = data
    /\ (pc = "grouped" /\ CompleteForGroups) => results = data

\* the raw row of the cell of a bucket and a permutation
CellRow(b, perm) ==
    CHOOSE r \in RowsOf(data) : Identity(r) = <<b[1], b[2], GroupOf(perm)>>

\* C3, amended: on such rows the fill synthesizes nothing and returns exactly the
\* supplied rows, values unchanged, arranged in bucket order (grouped: bucket-major,
\* within a bucket in the order the permutations are enumerated); the result is
\* the input sequence itself when the rows were supplied in that order.
C3_CompleteDataKept ==
    /\ (pc = "timeseries" /\ CompleteForPeriod) =>
          LET wb == WindowBuckets
          IN  /\ Len(results) = Len(data)
              /\ \A b \in 1..Len(wb) :
                    /\ results[b] \in RowsOf(data)
                    /\ SameSecond(results[b]["_start_at"], wb[b][1])
              /\ (\A b \in 1..Len(data) : SameSecond(data[b]["_start_at"], wb[b][1]))
                    => results = data
    /\ (pc = "grouped" /\ CompleteForGroups) =>
          LET wb == WindowBuckets
              np == Len(permutations)
              inorder == [i \in 1..(Len(wb) * np) |->
                             CellRow(wb[((i - 1) \div np) + 1], permutations[((i - 1) % np) + 1])]
          IN  /\ np = Cardinality(ObservedGroups)
              /\ results = inorder
              /\ Len(results) = Len(data)
              /\ RowsOf(results) = RowsOf(data)
              /\ data = inorder => results = data

\* complete rows supplied out of bucket order come back in bucket order
C3_Witness ==
    /\ pc = "timeseries"
    /\ CompleteForPeriod
    /\ Len(data) = 2
    /\ results = <<data[2], data[1]>>
    /\ results # data

\* complete grouped rows come back in the order of the permutations
C3_WitnessGrouped ==
    /\ pc = "grouped"
    /\ CompleteForGroups
    /\ Len(data) = 2
    /\ Len(permutations) = 2

\* C4 as stated: for timeseries and for fill_group_by_permutations, the fill of the
\* output of a fill (same start, end, period, default, group_by) equals that output.
C4_AsStated ==
    /\ pc = "timeseries_again" => results_again = results
    /\ pc = "grouped_again" => results_again = results

\* the entries of a result that belong to the b-th bucket
Block(rows, b, width) == {rows[i] : i \in ((b - 1) * width + 1)..(b * width)}

\* C4, amended: timeseries of its own output equals that output.
\* fill_group_by_permutations of its own output has, bucket by bucket, the same
\* rows as that output (every synthesized row is matched as an existing row), in
\* the order the second run enumerates the permutations: the two results are equal
\* when both runs enumerate the permutations in the same order.
C4_FillIdempotent ==
    /\ pc = "timeseries_again" => results_again = results
    /\ pc = "grouped_again" =>
          /\ Len(results_again) = Len(results)
          /\ Len(results) > 0 =>
                /\ RowsOf(permutations_again) = RowsOf(permutations)
                /\ \A b \in 1..(Len(results) \div Len(permutations)) :
                      Block(results_again, b, Len(permutations))
                          = Block(results, b, Len(permutations))
          /\ permutations_again = permutations => results_again = results

\* a second timeseries pass over an output holding raw and synthesized rows
C4_Witness ==
    /\ pc = "timeseries_again"
    /\ \E i \in 1..Len(results) : results[i] \in RowsOf(data)
    /\ \E i \in 1..Len(results) : results[i] \notin RowsOf(data)
    /\ results_again = results

\* a second grouped pass that enumerates the permutations in another order
C4_WitnessGrouped ==
    /\ pc = "grouped_again"
    /\ permutations_again # permutations
    /\ \E i \in 1..Len(results) : results[i] \notin RowsOf(data)
    /\ results_again # results

\* the combinations of the values the raw rows hold for each group-by key
SeenProduct ==
    LET K == {group_by[i] : i \in 1..Len(group_by)}
        seen == [k \in K |-> {data[j][k] : j \in 1..Len(data)}]
    IN  {f \in [K -> UNION {seen[k] : k \in K}] : \A k \in K : f[k] \in seen[k]}

\* C16: in fill_group_by_permutations the permutations are exactly the Cartesian
\* product of the values the raw rows hold for each group-by key, each combination
\* once; every group-by value of every output row, raw or synthesized, is held by
\* some raw row under that key, and over a non-empty window the output rows carry
\* every combination of the product.
C16_PermutationSpace ==
    pc = "grouped" =>
        LET K == {group_by[i] : i \in 1..Len(group_by)}
            product == SeenProduct
        IN  /\ RowsOf(permutations) = product
            /\ Len(permutations) = Cardinality(product)
            /\ \A i \in 1..Len(results) : \A k \in K :
                  \E j \in 1..Len(data) : data[j][k] = results[i][k]
            /\ Len(WindowBuckets) > 0 =>
                  {[k \in K |-> results[i][k]] : i \in 1..Len(results)} = product

\* two keys whose values a, x and b, y never cross in the raw rows: the output
\* holds a synthesized row for the combination a, y
C16_Witness ==
    /\ pc = "grouped"
    /\ group_by = <<"k1", "k2">>
    /\ Len(data) = 2
    /\ Len(permutations) = 4
    /\ \A j \in 1..Len(data) : ~(data[j]["k1"] = "a" /\ data[j]["k2"] = "y")
    /\ \E i \in 1..Len(results) : results[i]["k1"] = "a" /\ results[i]["k2"] = "y"

\* C17: every synthesized row holds the bucket's _start_at and _end_at (and in
\* fill_group_by_permutations the permutation's group-by values) whatever the
\* default mapping holds under those keys, and every other key of the default
\* mapping with the default's value; the default mapping is as it was given.
C17_IdentifyingFieldsWin ==
    /\ pc = "timeseries" =>
          LET wb == WindowBuckets
              raw == RowsOf(data)
          IN  /\ \A i \in 1..Len(results) :
                    results[i] \notin raw =>
                        \E b \in 1..Len(wb) : results[i] = DefaultRow(wb[b])
              /\ \A b \in 1..Len(wb) :
                    RowsAt(wb[b]) = {} =>
                        \E i \in 1..Len(results) : results[i] = DefaultRow(wb[b])
              /\ default_after = Some(default)
    /\ pc = "grouped" =>
          LET cells == Cells
              raw == RowsOf(data)
          IN  /\ \A i \in 1..Len(results) :
                    results[i] \notin raw =>
                        /\ Identity(results[i]) \in cells
                        /\ results[i] = DefaultCellRow(Identity(results[i]))
              /\ \A c \in cells :
                    (\A r \in raw : Identity(r) # c) =>
                        \E i \in 1..Len(results) : results[i] = DefaultCellRow(c)
              /\ default_after = Some(default)

\* a default mapping that holds _start_at, _end_at and k1, and a synthesized row
\* that holds the bucket's and the permutation's values under them
C17_Witness ==
    /\ pc = "grouped"
    /\ "_start_at" \in DOMAIN default
    /\ \E i \in 1..Len(results) :
          /\ results[i] \notin RowsOf(data)
          /\ results[i]["_start_at"] # default["_start_at"]
          /\ results[i]["_end_at"] # default["_end_at"]
          /\ results[i]["k1"] # default["k1"]
          /\ results[i]["_count"] = default["_count"]

C17_WitnessPeriod ==
    /\ pc = "timeseries"
    /\ "_start_at" \in DOMAIN default
    /\ \E i \in 1..Len(results) :
          /\ results[i] \notin RowsOf(data)
          /\ results[i]["_start_at"] = WindowBuckets[i][1]
          /\ results[i]["k1"] = default["k1"]

(***************************************************************************)
(* Properties of Query construction.                                       *)
(***************************************************************************)
\* a Query was built from a period and a delta
Resolved == pc = "created" /\ args.delta # None /\ args.period # None

\* the instant n steps of period P after t, one step at a time
RECURSIVE StepsAfter(_, _, _)
StepsAfter(P, t, n) == IF n = 0 THEN t ELSE StepsAfter(P, add_delta(t, delta(P)), n - 1)

\* the date given, or now
DateOrNow == IF args.date # None THEN Val(args.date) ELSE now

\* C8: with delta > 0, start_at is period.end(date, or now without a date) and
\* end_at is delta period steps after start_at; a date on a boundary stays as
\* start_at, a date off it is moved forward to the next boundary.
C8_PositiveDelta ==
    (Resolved /\ Val(args.delta) > 0) =>
        LET P == Val(args.period)
            q == Val(query)
        IN  /\ error = None
            /\ q.start_at = Some(end(P, DateOrNow))
            /\ q.end_at = Some(StepsAfter(P, Val(q.start_at), Val(args.delta)))
            /\ valid_start_at(P, Val(q.start_at))
            /\ IF valid_start_at(P, DateOrNow)
               THEN Val(q.start_at) = DateOrNow
               ELSE /\ dt_lt(DateOrNow, Val(q.start_at))
                    /\ Val(q.start_at) = StepsAfter(P, start(P, DateOrNow), 1)

\* Query.create(period=DAY, date=2014-01-09T01:02:03, delta=3): 10th to 13th
C8_Witness ==
    /\ Resolved
    /\ args.period = Some("day")
    /\ args.date = Some(datetime(2014, 1, 9, 1, 2, 3, 0))
    /\ args.delta = Some(3)
    /\ Val(query).start_at = Some(datetime(2014, 1, 10, 0, 0, 0, 0))
    /\ Val(query).end_at = Some(datetime(2014, 1, 13, 0, 0, 0, 0))

\* C9: with delta < 0, end_at is period.start(date, or now without a date) and
\* start_at is |delta| period steps before end_at; a date off a boundary is moved
\* back to the previous boundary.
C9_NegativeDelta ==
    (Resolved /\ Val(args.delta) < 0) =>
        LET P == Val(args.period)
            q == Val(query)
        IN  /\ error = None
            /\ q.end_at = Some(start(P, DateOrNow))
            /\ StepsAfter(P, Val(q.start_at), 0 - Val(args.delta)) = Val(q.end_at)
            /\ valid_start_at(P, Val(q.start_at))
            /\ valid_start_at(P, Val(q.end_at))
            /\ dt_le(Val(q.end_at), DateOrNow)
            /\ dt_lt(DateOrNow, StepsAfter(P, Val(q.end_at), 1))

\* Query.create(period=DAY, date=2014-01-09T01:02:03, delta=-3): 6th to 9th
C9_Witness ==
    /\ Resolved
    /\ args.period = Some("day")
    /\ args.date = Some(datetime(2014, 1, 9, 1, 2, 3, 0))
    /\ args.delta = Some(0 - 3)
    /\ Val(query).start_at = Some(datetime(2014, 1, 6, 0, 0, 0, 0))
    /\ Val(query).end_at = Some(datetime(2014, 1, 9, 0, 0, 0, 0))

\* C10 as stated: with delta == 0 or no delta, the Query's start_at and end_at are
\* the values the caller supplied.
C10_AsStated ==
    (pc = "created" /\ (args.delta = None \/ args.delta = Some(0))) =>
        /\ query # None
        /\ Val(query).start_at = args.start_at
        /\ Val(query).end_at = args.end_at

\* C10, amended: with no delta, the Query's start_at and end_at are the values the
\* caller supplied (possibly both null).  A delta of 0 is a delta like any other:
\* with a period, start_at and end_at are both period.start(date, or now), whatever
\* the caller supplied; without a period no Query is built.
C10_NoDeltaVerbatim ==
    /\ (pc = "created" /\ args.delta = None) =>
          /\ error = None
          /\ Val(query).start_at = args.start_at
          /\ Val(query).end_at = args.end_at
    /\ (pc = "created" /\ args.delta = Some(0)) =>
          IF args.period = None
          THEN query = None /\ error # None
          ELSE /\ Val(query).start_at = Some(start(Val(args.period), DateOrNow))
               /\ Val(query).end_at = Val(query).start_at

\* a Query built without a delta from a start_at alone, and one from neither bound
C10_Witness ==
    /\ pc = "created"
    /\ args.delta = None
    /\ args.period # None
    /\ args.date # None
    /\ args.start_at # None
    /\ args.end_at = None
    /\ Val(query).start_at = args.start_at
    /\ Val(query).end_at = None

(***************************************************************************)
(* Properties of Query execution.                                          *)
(***************************************************************************)
\* the query names a group_by key (a non-empty key name) / a period
HasGroupBy == Val(query).group_by # None /\ Val(query).group_by # Some(<<>>)
HasPeriod == Val(query).period # None

\* the start-at key of a period: _<name>_start_at
PeriodKey == <<"_", Val(Val(query).period), "_start_at">>

\* C11: Query.execute makes exactly one call on the repository, chosen by the
\* presence of a group_by key and of a period: with neither, find with the query's
\* sort_by and limit; with a group_by only, group on the group_by key; with a
\* period only, group on the period's start-at key, sorted ascending by that key
\* whatever the query's sort_by; with both, multi_group on the group_by key and the
\* period's start-at key.  The result set is of the matching kind.
C11_ExecuteDispatch ==
    pc = "executed" =>
        LET q == Val(query)
            c == calls[1]
            shape == Val(result).shape
        IN  /\ Len(calls) = 1
            /\ (~HasGroupBy /\ ~HasPeriod) =>
                  /\ c.op = "find"
                  /\ c.sort = q.sort_by
                  /\ c.limit = q.limit
                  /\ shape = "SimpleData"
            /\ (HasGroupBy /\ ~HasPeriod) =>
                  /\ c.op = "group"
                  /\ c.keys = <<Val(q.group_by)>>
                  /\ shape = "GroupedData"
            /\ (~HasGroupBy /\ HasPeriod) =>
                  /\ c.op = "group"
                  /\ c.keys = <<PeriodKey>>
                  /\ c.sort = Some(<<PeriodKey, <<"ascending">>>>)
                  /\ shape = "PeriodData"
            /\ (HasGroupBy /\ HasPeriod) =>
                  /\ c.op = "multi_group"
                  /\ c.keys = <<Val(q.group_by), PeriodKey>>
                  /\ shape = "PeriodGroupedData"

\* a week query that asks for a descending sort on k: one group call on
\* _week_start_at, sorted ascending by it
C11_Witness ==
    /\ pc = "executed"
    /\ ~HasGroupBy
    /\ Val(query).period = Some("week")
    /\ Val(query).sort_by = Some(<< <<"k">>, <<"descending">> >>)
    /\ Len(calls) = 1
    /\ calls[1].op = "group"
    /\ calls[1].keys = << <<"_", "week", "_start_at">> >>
    /\ calls[1].sort = Some(<< <<"_", "week", "_start_at">>, <<"ascending">> >>)

\* a query with a group_by key and a period: one multi_group call
C11_WitnessBoth ==
    /\ pc = "executed"
    /\ HasGroupBy
    /\ Val(query).period = Some("month")
    /\ calls[1].op = "multi_group"
    /\ calls[1].keys = << <<"k">>, <<"_", "month", "_start_at">> >>

\* C12: the result of Query.execute has its gaps filled exactly when it is period
\* data or grouped period data and the query's start_at and end_at are both set,
\* and then over the window (start_at, end_at) of the query; simple and grouped
\* data, and period data with a bound missing, are not filled.
C12_FillWhenBounded ==
    pc = "executed" =>
        LET q == Val(query)
            r == Val(result)
        IN  /\ r.fill # None <=>
                  /\ r.shape \in {"PeriodData", "PeriodGroupedData"}
                  /\ q.start_at # None
                  /\ q.end_at # None
            /\ r.fill # None =>
                  /\ Val(r.fill)[1] = q.start_at
                  /\ Val(r.fill)[2] = q.end_at

\* a period query with both bounds is filled over them
C12_Witness ==
    /\ pc = "executed"
    /\ Val(result).shape = "PeriodData"
    /\ Val(query).start_at = Some(datetime(2012, 12, 12, 8, 12, 43, 0))
    /\ Val(query).end_at = Some(datetime(2012, 12, 13, 8, 12, 43, 0))
    /\ Val(result).fill # None
    /\ Val(Val(result).fill)[1] = Val(query).start_at
    /\ Val(Val(result).fill)[2] = Val(query).end_at

\* a grouped period query with a start_at and no end_at is not filled
C12_WitnessOpen ==
    /\ pc = "executed"
    /\ Val(result).shape = "PeriodGroupedData"
    /\ Val(query).start_at # None
    /\ Val(query).end_at = None
    /\ Val(result).fill = None

\* a grouped query with both bounds is not filled
C12_WitnessGrouped ==
    /\ pc = "executed"
    /\ Val(result).shape = "GroupedData"
    /\ Val(query).start_at # None
    /\ Val(query).end_at # None
    /\ Val(result).fill = None

(***************************************************************************)
(* Properties of the translation to storage terms.                         *)
(***************************************************************************)
\* the translated filter holds the pair as a constraint
Constrains(translated, pair) ==
    /\ pair[1] \in DOMAIN translated
    /\ translated[pair[1]] = pair[2]

\* C13 as stated: every (key, value) pair of filter_by, also one that shares its
\* key with another pair, is a constraint of the translated filter, for both
\* translations (Query.to_mongo_query and get_mongo_spec).
C13_AsStated ==
    /\ pc = "to_mongo_query" =>
          \A i \in 1..Len(Val(query).filter_by) :
              Constrains(Val(mongo_query), Val(query).filter_by[i])
    /\ pc = "mongo_spec" =>
          \A i \in 1..Len(Val(query).filter_by) :
              Constrains(Val(mongo_spec), Val(query).filter_by[i])

\* a value under _timestamp that is a time range
IsTimeRange(v) == DOMAIN v = {"gte", "lt"}

\* the translated filter holds the time range of the query, and only when the
\* query has a bound
CarriesTimeRange(translated) ==
    LET q == Val(query)
        ts == <<"_timestamp">>
    IN  IF q.start_at # None \/ q.end_at # None
        THEN /\ ts \in DOMAIN translated
             /\ IsTimeRange(translated[ts])
             /\ translated[ts].gte = q.start_at
             /\ translated[ts].lt = q.end_at
        ELSE ts \in DOMAIN translated => ~IsTimeRange(translated[ts])

\* C18 as stated: whatever the filter_by, the translated filter holds under
\* _timestamp ">= start_at" exactly when start_at is set and "< end_at" exactly when
\* end_at is set, and no time range when neither is set, for both translations.
C18_AsStated ==
    /\ pc = "to_mongo_query" => CarriesTimeRange(Val(mongo_query))
    /\ pc = "mongo_spec" => CarriesTimeRange(Val(mongo_spec))

\* C19 as stated: get_mongo_sort gives ascending (1) or descending (-1) on the
\* sort_by key for those two directions, and for any other direction what it
\* gives for a query with no sort_by: None.
C19_AsStated ==
    pc = "mongo_sort" =>
        LET sort_by == Val(query).sort_by
            sort == Val(mongo_sort)
        IN  IF sort_by = None THEN sort = None
            ELSE IF Val(sort_by)[2] = <<"ascending">>
                 THEN sort = Some(<< <<Val(sort_by)[1], Some(1)>> >>)
            ELSE IF Val(sort_by)[2] = <<"descending">>
                 THEN sort = Some(<< <<Val(sort_by)[1], Some(0 - 1)>> >>)
            ELSE sort = None

(***************************************************************************)
(* Properties of request parsing.                                          *)
(***************************************************************************)
\* the window of a period P, an instant t and a non-zero delta d: forward from the
\* end of the period of t, or back from its start, |d| steps
WindowOf(P, t, d) ==
    IF d > 0
    THEN <<end(P, t), StepsAfter(P, end(P, t), d)>>
    ELSE <<CHOOSE b \in {add_delta(start(P, t), mul_delta(delta(P), d))} :
               StepsAfter(P, b, 0 - d) = start(P, t),
           start(P, t)>>

\* C14 as stated: for request arguments with a period and a non-zero delta, with
\* or without a date, and no start_at or end_at, the mapping parse_request_args
\* returns holds under start_at and end_at the window of (period, date or now,
\* delta).
C14_AsStated ==
    ( /\ pc = "request_args"
      /\ request.start_at = <<>> /\ request.end_at = <<>>
      /\ args.period # None
      /\ args.delta # None /\ args.delta # Some(0) ) =>
        LET w == WindowOf(Val(args.period), or_else(args.date, now), Val(args.delta))
        IN  /\ args.start_at = Some(w[1])
            /\ args.end_at = Some(w[2])

\* the bounds a caller of Query.create, or a request, can give
OtherBounds == Option(SuppliedStarts \cup SuppliedEnds)
OtherRawBounds == NoneOrOne(RawBounds)

\* C15: a Query built with a delta, by Query.create or by Query.parse, has the
\* start_at and end_at that any other construction from the same period, date and
\* delta has, whatever start_at and end_at the caller gives; when no Query is built
\* (a delta without a period) none is built for any bounds given.
C15_WindowDerivedOnly ==
    /\ (pc = "created" /\ args.delta # None) =>
          \A s, e \in OtherBounds :
              LET other == Query_create([args EXCEPT !.start_at = s, !.end_at = e], now)
              IN  /\ other.error = error
                  /\ query # None =>
                        /\ Val(other.query).start_at = Val(query).start_at
                        /\ Val(other.query).end_at = Val(query).end_at
    /\ (pc = "parsed" /\ request.delta # <<>>) =>
          \A s, e \in OtherRawBounds :
              LET other == Query_parse([request EXCEPT !.start_at = s, !.end_at = e], now)
              IN  /\ other.error = error
                  /\ query # None =>
                        /\ Val(other.query).start_at = Val(query).start_at
                        /\ Val(other.query).end_at = Val(query).end_at

\* a request with a start_at, an end_at, a period and a delta: the Query parsed
\* has the window of the delta, not the bounds of the request
C15_Witness ==
    /\ pc = "parsed"
    /\ request.start_at # <<>>
    /\ request.end_at # <<>>
    /\ request.period = << <<"day">> >>
    /\ request.delta = << <<"-", "3">> >>
    /\ request.date = << [local |-> datetime(2014, 1, 12, 0, 30, 0, 0), utcoffset |-> 1] >>
    /\ Val(query).start_at = Some(datetime(2014, 1, 8, 0, 0, 0, 0))
    /\ Val(query).end_at = Some(datetime(2014, 1, 11, 0, 0, 0, 0))

\* the same from Query.create
C15_WitnessCreate ==
    /\ pc = "created"
    /\ args.start_at # None
    /\ args.end_at # None
    /\ args.delta = Some(3)
    /\ args.period = Some("day")
    /\ args.date = Some(datetime(2014, 1, 9, 0, 0, 0, 0))
    /\ Val(query).start_at = Some(datetime(2014, 1, 9, 0, 0, 0, 0))
    /\ Val(query).end_at = Some(datetime(2014, 1, 12, 0, 0, 0, 0))

(***************************************************************************)
(* Properties of Query construction: a delta without a period.             *)
(***************************************************************************)
\* the arguments the construction worked on: those given to Query.create, or
\* those parse_request_args made of the request given to Query.parse
GivenArgs == IF pc = "created" THEN args ELSE parse_request_args(request)

\* C21: Query.create and Query.parse given a delta (0 included) and no period
\* raise and return no Query; and every Query built with a delta has a period
\* and both bounds of its window.
C21_DeltaWithoutPeriodFails ==
    pc \in {"created", "parsed"} =>
        /\ (GivenArgs.delta # None /\ GivenArgs.period = None) =>
              query = None /\ error # None
        /\ query # None =>
              /\ error = None
              /\ Val(query).delta # None =>
                    /\ Val(query).period # None
                    /\ Val(query).start_at # None
                    /\ Val(query).end_at # None

\* Query.create(delta=3, start_at=..., end_at=...) without a period
C21_Witness ==
    /\ pc = "created"
    /\ args.delta = Some(3) /\ args.period = None
    /\ args.start_at # None /\ args.end_at # None
    /\ query = None /\ error = Some("AttributeError")

\* Query.parse of a request with delta=1 and a period name that is no period
C21_WitnessParse ==
    /\ pc = "parsed"
    /\ request.delta = << <<"1">> >> /\ request.period = <<text("fortnight")>>
    /\ query = None /\ error = Some("AttributeError")

\* the absolute value of an integer
Abs(n) == IF n < 0 THEN 0 - n ELSE n

\* C27: for every period, date (or now) and non-zero delta, the window resolved
\* when the Query is built has start_at < end_at, both bounds are valid starts of
\* the period, and period.range(start_at, end_at) has exactly |delta| buckets.
C27_ResolvedWindow ==
    (pc \in {"created", "parsed"} /\ query # None /\ Val(query).delta # None
        /\ Val(query).delta # Some(0)) =>
        LET q == Val(query)
            P == Val(q.period)
            s == Val(q.start_at)
            e == Val(q.end_at)
        IN  /\ dt_lt(s, e)
            /\ valid_start_at(P, s)
            /\ valid_start_at(P, e)
            /\ Len(range(P, s, e)) = Abs(Val(q.delta))

\* Query.create(period=MONTH, date=2016-02-29T00:30, delta=-3): December to March
C27_Witness ==
    /\ pc = "created"
    /\ args.period = Some("month") /\ args.delta = Some(0 - 3)
    /\ args.date = Some(datetime(2016, 2, 29, 0, 30, 0, 0))
    /\ Val(query).start_at = Some(datetime(2015, 11, 1, 0, 0, 0, 0))
    /\ Val(query).end_at = Some(datetime(2016, 2, 1, 0, 0, 0, 0))
    /\ Len(range("month", Val(Val(query).start_at), Val(Val(query).end_at))) = 3

\* Query.parse of period=week, delta=3 and a date given an hour east of UTC
C27_WitnessParse ==
    /\ pc = "parsed"
    /\ request.period = <<text("week")>> /\ request.delta = << <<"3">> >>
    /\ request.date # <<>> /\ request.date[1].utcoffset = 1
    /\ Len(range("week", Val(Val(query).start_at), Val(Val(query).end_at))) = 3

(***************************************************************************)
(* The two translations of a Query to a storage filter.                    *)
(***************************************************************************)
\* C25 as stated: Query.to_mongo_query() and get_mongo_spec(query) return the same
\* filter mapping for every Query, also one whose filter_by repeats a key or names
\* the key _timestamp.
C25_AsStated ==
    (pc = "to_mongo_query") => Val(mongo_query) = get_mongo_spec(Val(query))

(***************************************************************************)
(* The fills on an empty set of raw rows.                                  *)
(***************************************************************************)
\* C26: with no raw row, fill_group_by_permutations (one group-by key or more)
\* returns an empty list however many buckets the window has, while timeseries
\* returns one default row per bucket.
C26_EmptyData ==
    LET wb == WindowBuckets
    IN  /\ (pc = "grouped" /\ data = <<>>) =>
              /\ Len(group_by) >= 1
              /\ permutations = <<>>
              /\ results = <<>>
        /\ (pc = "timeseries" /\ data = <<>>) =>
              /\ Len(results) = Len(wb)
              /\ \A i \in 1..Len(wb) : results[i] = DefaultRow(wb[i])

\* no raw row and two buckets: nothing from the grouped fill
C26_Witness ==
    /\ pc = "grouped"
    /\ data = <<>>
    /\ Len(WindowBuckets) = 2
    /\ results = <<>>

\* no raw row and two buckets: two default rows from the period fill
C26_WitnessPeriod ==
    /\ pc = "timeseries"
    /\ data = <<>>
    /\ Len(WindowBuckets) = 2
    /\ Len(results) = 2

(***************************************************************************)
(* Query.execute when the storage call fails.                              *)
(***************************************************************************)
\* C22: when the repository call made by Query.execute raises, the call was made
\* once, the exception that reaches the caller of execute is the one raised, and
\* there is no result set and hence no fill; when it returns, nothing is raised.
C22_StorageFailurePropagates ==
    /\ pc = "execute_failed" =>
          /\ raised # None
          /\ error = raised
          /\ Len(calls) = 1
          /\ result = None
    /\ pc = "executed" =>
          /\ raised = None /\ error = None
          /\ Len(calls) = 1
          /\ result # None

\* a period query with both bounds, which would fill, whose group call raises
C22_Witness ==
    /\ pc = "execute_failed"
    /\ Val(query).period # None
    /\ Val(query).start_at # None /\ Val(query).end_at # None
    /\ calls[1].op = "group"
    /\ raised = Some("AutoReconnect") /\ error = Some("AutoReconnect")
    /\ result = None

(***************************************************************************)
(* The sign-on session protocol.                                           *)
(***************************************************************************)
\* the "user" of a session, if it holds one
SessionUser(s) == IF "user" \in DOMAIN s THEN Some(s["user"]) ELSE None

\* whether the request carried a code
CarriedCode(r) == r.code # None /\ r.code # Some("")

\* the sign-in permission the user details of the request reported: True, False,
\* or None when no token or no details were had
ReportedPermission(r) ==
    user_details(exchange(Val(r.token_response)), Val(r.details_response))[2]

\* C24: over any sequence of /authorized and /sign_out requests, each request
\* leaves the session's user as follows.  /sign_out: no user.  /authorized without
\* a code: 400, the user as before.  /authorized with a code and permission True:
\* the user is that user's name and email, redirect to the index.  /authorized
\* with permission False or None: redirect to not_authorized, the user as before
\* (none is created).  The session starts without a user, so it holds a user only
\* as written by a permitted /authorized request.
C24_SignonProtocol ==
    [][pc = "signon" =>
        LET r == Val(signon_request')
            before == SessionUser(Val(session))
            after == SessionUser(Val(session'))
            answer == Val(response')
        IN  IF r.path = "sign_out" THEN after = None /\ answer.status = 200
            ELSE IF ~CarriedCode(r) THEN answer.status = 400 /\ after = before
            ELSE IF ReportedPermission(r) = Some(TRUE)
            THEN /\ after = Some([name |-> Val(r.details_response).json.user.name,
                                  email |-> Val(r.details_response).json.user.email])
                 /\ answer = [status |-> 302, location |-> Some("user_route")]
            ELSE /\ after = before
                 /\ answer = [status |-> 302, location |-> Some("not_authorized")]
    ]_vars

\* /authorized?code=12345 for a user with the signin permission: the session
\* holds that user
C24_Witness ==
    /\ pc = "signon"
    /\ signon_request # None
    /\ Val(signon_request).path = "authorized"
    /\ Val(signon_request).code = Some("12345")
    /\ "signin" \in Val(Val(signon_request).details_response).json.user.permissions
    /\ SessionUser(Val(session)) = Some([name |-> "test", email |-> "test@example.com"])
    /\ Val(response).location = Some("user_route")

\* a user without the permission, asking while another user is signed in
C24_WitnessRefused ==
    /\ pc = "signon"
    /\ signon_request # None
    /\ Val(signon_request).path = "authorized"
    /\ Val(response).location = Some("not_authorized")
    /\ Val(Val(signon_request).details_response).json.user.name = "bob"
    /\ SessionUser(Val(session)) = Some([name |-> "test", email |-> "test@example.com"])

(***************************************************************************)
(* The frame of get_query_parameters.                                      *)
(***************************************************************************)
\* what the call would return on the transform as first given
OnFresh == get_query_parameters(transform_given, span[1], span[2]).query_parameters

\* C28 as stated: get_query_parameters leaves transform unchanged, so that over
\* any sequence of calls on one transform each call returns what it would return
\* on a fresh transform: with earliest == latest and a period, duration 1 and
\* start_at but no end_at or inclusive; with earliest == latest and no period,
\* inclusive, start_at and end_at; otherwise start_at and end_at (and flatten) with
\* no duration or inclusive left over.
C28_AsStated ==
    pc = "query_parameters" =>
        LET qp == Val(query_parameters)
            keys == DOMAIN qp
        IN  /\ transform = transform_given
            /\ qp = OnFresh
            /\ IF span[1] = span[2]
               THEN IF "period" \in keys
                    THEN /\ qp["duration"] = 1
                         /\ "start_at" \in keys
                         /\ "end_at" \notin keys /\ "inclusive" \notin keys
                    ELSE {"inclusive", "start_at", "end_at"} \subseteq keys
               ELSE /\ {"flatten", "start_at", "end_at"} \subseteq keys
                    /\ "duration" \notin keys /\ "inclusive" \notin keys

(***************************************************************************)
(* The retries of reconnecting_save.                                       *)
(***************************************************************************)
\* the most calls of collection.save that tries allows
MostSaves == IF tries <= 1 THEN 1 ELSE tries

SaveAttempts ==
    /\ Len(saves) <= MostSaves
    /\ \A i \in 1..(Len(saves) - 1) : saves[i] = "AutoReconnect"
    /\ pc = "save" => /\ Len(saves) < MostSaves
                      /\ \A i \in 1..Len(saves) : saves[i] = "AutoReconnect"
    /\ pc = "saved" => /\ saves[Len(saves)] = "saved"
                       /\ save_raised = None
                       /\ record \in collection
    /\ pc = "save_failed" =>
          /\ save_raised = Some(saves[Len(saves)])
          /\ save_raised # Some("saved")
          /\ save_raised = Some("AutoReconnect") =>
                /\ Len(saves) = MostSaves
                /\ \A i \in 1..Len(saves) : saves[i] = "AutoReconnect"

\* C29: reconnecting_save(collection, record, tries=n) calls collection.save again
\* only after AutoReconnect, at most n times in all (once when n <= 1), stops at
\* the first save that succeeds, raises AutoReconnect only when all n attempts
\* raised it, and always ends: by returning or by raising.
C29_ReconnectingSave ==
    /\ [](pc \in {"save", "saved", "save_failed"} => SaveAttempts)
    /\ <>(pc \in {"saved", "save_failed"})

\* tries=3: AutoReconnect twice, then the record is saved
C29_Witness ==
    /\ pc = "saved"
    /\ tries = 3
    /\ saves = <<"AutoReconnect", "AutoReconnect", "saved">>

\* tries=3: AutoReconnect three times reaches the caller
C29_WitnessRaised ==
    /\ pc = "save_failed"
    /\ tries = 3
    /\ saves = <<"AutoReconnect", "AutoReconnect", "AutoReconnect">>
    /\ save_raised = Some("AutoReconnect")

(***************************************************************************)
(* The clean-up of has_virus_signature.                                    *)
(***************************************************************************)
\* C30 as stated: every evaluation of has_virus_signature ends with the temporary
\* file /tmp/<basename> removed and the position of the uploaded stream back at 0,
\* whatever the scanner did (no virus, virus found, error); and once a scan found
\* a virus signature, later evaluations keep reporting True.
C30_AsStated ==
    pc = "evaluated" =>
        /\ scanned_file.file_path \notin tmp_files
        /\ scanned_file.file_object.position = 0
        /\ (\E i \in 1..Len(retcodes) : retcodes[i] = 1) =>
              /\ scanned_file.virus_signature = "True"
              /\ scan_raised = None => returned = Some("True")

(***************************************************************************)
(* Callers running concurrently.                                           *)
(***************************************************************************)
\* what the call of a caller returns when it runs alone on what is shared
Alone(th, sh) ==
    IF th.op = "start" THEN <<start(th.period, sh.start)>>
    ELSE IF th.op = "end" THEN <<end(th.period, sh.start)>>
    ELSE IF th.op = "range" THEN range(th.period, sh.start, sh.end)
    ELSE IF th.op = "timeseries"
    THEN timeseries(sh.start, sh.end, th.period, sh.data, sh.default)
    ELSE fill_group_by_permutations(sh.start, sh.end, th.period, sh.data, sh.default,
                                    SharedGroupBy, th.permutations)

\* C23: under any interleaving of the callers' calls of Period.start, end and
\* range, timeseries and fill_group_by_permutations on shared Period singletons,
\* every call that has returned returned what it returns running alone, and no
\* step changes what the callers share (the singletons, the raw rows, the default
\* mapping).
C23_NoInterference ==
    /\ [](pc = "threads" =>
            \A c \in Callers :
                threads[c].pc = "done" => threads[c].results = Alone(threads[c], shared))
    /\ [][pc = "threads" => shared' = shared]_vars

\* two callers ranging over the same singleton, one done between two steps of the
\* other
C23_Witness ==
    /\ pc = "threads"
    /\ threads[1].op = "range" /\ threads[2].op = "timeseries"
    /\ threads[1].period = "week" /\ threads[2].period = "week"
    /\ threads[1].pc = "running" /\ Len(threads[1].results) = 1
    /\ threads[2].pc = "done" /\ Len(threads[2].results) = 2

====
